---- MODULE Spec2Model ----
(***************************************************************************)
(* Model of the scoring core of bilbasen-fiat-panda-finder:                *)
(*   src/src/app/parse_condition.py  free-text condition classifier        *)
(*   src/src/app/scoring.py          ListingScorer (winsorize, min-max     *)
(*                                   normalise, weighted aggregate)        *)
(*   src/src/app/config.py           the process-wide settings singleton   *)
(*                                                                         *)
(* Numbers.  Python floats are modelled as exact rationals: a score is a   *)
(* fraction <<n, d>> in lowest terms with d > 0.  Weights are counted in   *)
(* thousandths (0.4 is 400), lexicon scores and deltas in hundredths       *)
(* (0.85 is 85), percentiles in percent (0.05 is 5).  Floating-point       *)
(* rounding noise is outside the model.                                    *)
(*                                                                         *)
(* Text.  A Python str is a sequence of one-character strings, so that     *)
(* lower(), strip(), re.sub() and replace() are modelled by what they do   *)
(* to the characters.                                                      *)
(*                                                                         *)
(* Optional values.  None / NaN is the empty tuple, a present value v is   *)
(* the one-element tuple <<v>>.                                            *)
(***************************************************************************)
EXTENDS Integers, Sequences, FiniteSets, TLC

VARIABLES
  settings,  \* config.py: the global Settings instance (weights, percentiles)
  scorer,    \* the ListingScorer object the caller holds, or NoScorer
  df,        \* the input collection handed to score_listings (a DataFrame)
  call,      \* the most recent call: its operation, arguments, return value or exception
  listings,  \* db.py: the rows of the listing table, in id order
  scraping   \* the scraper's call in progress: its arguments, its position, the
             \* pages it has opened, and what it returned or raised

vars == <<settings, scorer, df, call, listings, scraping>>

\* ---------------------------------------------------------------- bounds

\* Longest input collection built.
MaxListings == 4

\* ------------------------------------------------------- optional values

Null == <<>>

Some(v) == <<v>>

notna(x) == x # Null

Val(x) == x[1]

\* The tuple <<f[1], ..., f[n]>> of a function f on 1..n.
RECURSIVE Tuple(_, _)
Tuple(f, n) == IF n = 0 THEN <<>> ELSE Append(Tuple(f, n - 1), f[n])

\* ------------------------------------------------------------- rationals

Abs(i) == IF i < 0 THEN -i ELSE i

RECURSIVE Gcd(_, _)
Gcd(a, b) == IF b = 0 THEN a ELSE Gcd(b, a % b)

\* n/d in lowest terms with a positive denominator (d # 0).
Frac(n, d) ==
  LET g == Gcd(Abs(n), Abs(d))
      s == IF d < 0 THEN -1 ELSE 1
  IN  <<(s * n) \div g, (s * d) \div g>>

Num(q) == q[1]

Den(q) == q[2]

Half == Frac(1, 2)

Zero == Frac(0, 1)

One == Frac(1, 1)

FracOfInt(i) == Frac(i, 1)

FracAdd(p, q) == Frac(Num(p) * Den(q) + Num(q) * Den(p), Den(p) * Den(q))

FracSub(p, q) == Frac(Num(p) * Den(q) - Num(q) * Den(p), Den(p) * Den(q))

FracMul(p, q) == Frac(Num(p) * Num(q), Den(p) * Den(q))

FracDiv(p, q) == Frac(Num(p) * Den(q), Den(p) * Num(q))

FracLeq(p, q) == Num(p) * Den(q) <= Num(q) * Den(p)

FracLt(p, q) == Num(p) * Den(q) < Num(q) * Den(p)

FracMin(p, q) == IF FracLeq(p, q) THEN p ELSE q

FracMax(p, q) == IF FracLeq(p, q) THEN q ELSE p

\* Series.clip(lo, hi) / max(lo, min(hi, x)) on one value.
FracClip(x, lo, hi) == FracMax(lo, FracMin(hi, x))

\* floor(n/d) for d > 0 (TLA+'s \div rounds toward minus infinity).
Floor(q) == Num(q) \div Den(q)

\* numpy / pandas round(): to the nearest integer, a tie to the even one.
RoundHalfEven(q) ==
  LET f == Floor(q)
      r == FracSub(q, FracOfInt(f))
  IN  IF FracLt(r, Half) THEN f
      ELSE IF FracLt(Half, r) THEN f + 1
      ELSE IF f % 2 = 0 THEN f ELSE f + 1

\* -------------------------------------------------------------- text

Whitespace == {" ", "\t", "\n"}

\* The character class of the first re.sub in normalize_text.
Punctuation == {".", ",", "!", "?", ";", ":", "\"", "'", "(", ")"}

UpperCase ==
  <<"A","B","C","D","E","F","G","H","I","J","K","L","M","N","O","P","Q","R",
    "S","T","U","V","W","X","Y","Z","Æ","Ø","Å">>

LowerCase ==
  <<"a","b","c","d","e","f","g","h","i","j","k","l","m","n","o","p","q","r",
    "s","t","u","v","w","x","y","z","æ","ø","å">>

\* str.lower() on one character.
LowerChar(c) ==
  IF \E i \in DOMAIN UpperCase : UpperCase[i] = c
  THEN LowerCase[CHOOSE i \in DOMAIN UpperCase : UpperCase[i] = c]
  ELSE c

\* The text is not lower-cased.
LowerNot(text) == text

\* str.lower()
lower(text) == Tuple([i \in DOMAIN text |-> LowerChar(text[i])], Len(text))

RECURSIVE lstrip(_)
lstrip(text) ==
  IF text # <<>> /\ Head(text) \in Whitespace THEN lstrip(Tail(text)) ELSE text

RECURSIVE rstrip(_)
rstrip(text) ==
  IF text # <<>> /\ text[Len(text)] \in Whitespace
  THEN rstrip(SubSeq(text, 1, Len(text) - 1))
  ELSE text

strip(text) == rstrip(lstrip(text))

\* re.sub(r'[cls]+', " ", text): every maximal run of characters of cls
\* becomes one space.
RECURSIVE SubRuns(_, _)
SubRuns(text, cls) ==
  IF text = <<>> THEN <<>>
  ELSE IF Head(text) \in cls
       THEN IF Len(text) > 1 /\ text[2] \in cls
            THEN SubRuns(Tail(text), cls)
            ELSE <<" ">> \o SubRuns(Tail(text), cls)
       ELSE <<Head(text)>> \o SubRuns(Tail(text), cls)

\* The replacements table of normalize_text applied to one character; the
\* entries "nysynet" and "serviceret" map a string to itself and change nothing.
ReplaceChar(c) ==
  IF c = "æ" THEN <<"a", "e">>
  ELSE IF c = "ø" THEN <<"o", "e">>
  ELSE IF c = "å" THEN <<"a", "a">>
  ELSE <<c>>

RECURSIVE Replacements(_)
Replacements(text) ==
  IF text = <<>> THEN <<>>
  ELSE ReplaceChar(Head(text)) \o Replacements(Tail(text))

normalize_text(text) ==
  IF text = <<>> THEN <<>>
  ELSE strip(Replacements(SubRuns(SubRuns(strip(lower(text)), Punctuation),
                                  Whitespace)))

\* str.split(): the maximal runs of non-whitespace characters, in order.
RECURSIVE SplitFrom(_, _)
SplitFrom(text, word) ==
  IF text = <<>> THEN (IF word = <<>> THEN <<>> ELSE <<word>>)
  ELSE IF Head(text) \in Whitespace
       THEN (IF word = <<>> THEN <<>> ELSE <<word>>) \o SplitFrom(Tail(text), <<>>)
       ELSE SplitFrom(Tail(text), Append(word, Head(text)))

split(text) == SplitFrom(text, <<>>)

extract_condition_phrases(text) ==
  LET words == split(normalize_text(text))
      n == Len(words)
      two == Tuple([i \in 1..(n - 1) |-> words[i] \o <<" ">> \o words[i + 1]],
                   IF n > 1 THEN n - 1 ELSE 0)
      three == Tuple([i \in 1..(n - 2) |->
                        words[i] \o <<" ">> \o words[i + 1] \o <<" ">> \o words[i + 2]],
                     IF n > 2 THEN n - 2 ELSE 0)
  IN  words \o two \o three

\* ----------------------------------------------------------- the lexicon
\* parse_condition.py's four dictionaries; score and delta in hundredths.

CONDITION_MAPPINGS ==
  { [phrase |-> <<"n","y","s","y","n","e","t">>, score |-> 100],  \* "nysynet": 1.0
    [phrase |-> <<"h","e","l","t"," ","n","y">>, score |-> 100],  \* "helt ny": 1.0
    [phrase |-> <<"f","a","b","r","i","k","s","n","y">>, score |-> 100],  \* "fabriksny": 1.0
    [phrase |-> <<"s","o","m"," ","n","y">>, score |-> 95],  \* "som ny": 0.95
    [phrase |-> <<"t","o","p","s","t","a","n","d">>, score |-> 95],  \* "topstand": 0.95
    [phrase |-> <<"p","e","r","f","e","k","t"," ","s","t","a","n","d">>, score |-> 95],  \* "perfekt stand": 0.95
    [phrase |-> <<"u","p","å","k","l","a","g","e","l","i","g">>, score |-> 90],  \* "upåklagelig": 0.9
    [phrase |-> <<"f","r","e","m","r","a","g","e","n","d","e">>, score |-> 90],  \* "fremragende": 0.9
    [phrase |-> <<"n","y","s","e","r","v","i","c","e","r","e","t">>, score |-> 85],  \* "nyserviceret": 0.85
    [phrase |-> <<"m","e","g","e","t"," ","p","æ","n">>, score |-> 85],  \* "meget pæn": 0.85
    [phrase |-> <<"v","i","r","k","e","l","i","g"," ","p","æ","n">>, score |-> 85],  \* "virkelig pæn": 0.85
    [phrase |-> <<"s","u","p","e","r"," ","f","l","o","t">>, score |-> 85],  \* "super flot": 0.85
    [phrase |-> <<"f","l","o","t">>, score |-> 80],  \* "flot": 0.8
    [phrase |-> <<"p","æ","n">>, score |-> 80],  \* "pæn": 0.8
    [phrase |-> <<"v","e","l","h","o","l","d","t">>, score |-> 80],  \* "velholdt": 0.8
    [phrase |-> <<"g","o","d"," ","s","t","a","n","d">>, score |-> 75],  \* "god stand": 0.75
    [phrase |-> <<"f","i","n"," ","s","t","a","n","d">>, score |-> 75],  \* "fin stand": 0.75
    [phrase |-> <<"g","o","d">>, score |-> 70],  \* "god": 0.7
    [phrase |-> <<"f","i","n">>, score |-> 70],  \* "fin": 0.7
    [phrase |-> <<"t","i","l","f","r","e","d","s","s","t","i","l","l","e","n","d","e">>, score |-> 65],  \* "tilfredsstillende": 0.65
    [phrase |-> <<"o","k"," ","s","t","a","n","d">>, score |-> 65],  \* "ok stand": 0.65
    [phrase |-> <<"a","c","c","e","p","t","a","b","e","l">>, score |-> 60],  \* "acceptabel": 0.6
    [phrase |-> <<"b","r","u","g","b","a","r">>, score |-> 60],  \* "brugbar": 0.6
    [phrase |-> <<"b","r","u","g","t">>, score |-> 55],  \* "brugt": 0.55
    [phrase |-> <<"a","l","m","i","n","d","e","l","i","g"," ","b","r","u","g","t">>, score |-> 55],  \* "almindelig brugt": 0.55
    [phrase |-> <<"n","o","r","m","a","l">>, score |-> 50],  \* "normal": 0.5
    [phrase |-> <<"n","o","r","m","a","l","t"," ","b","r","u","g","s","s","p","o","r">>, score |-> 50],  \* "normalt brugsspor": 0.5
    [phrase |-> <<"a","l","m","i","n","d","e","l","i","g"," ","s","t","a","n","d">>, score |-> 50],  \* "almindelig stand": 0.5
    [phrase |-> <<"m","i","d","d","e","l","s","t","a","n","d">>, score |-> 45],  \* "middelstand": 0.45
    [phrase |-> <<"g","e","n","n","e","m","s","n","i","t","l","i","g">>, score |-> 45],  \* "gennemsnitlig": 0.45
    [phrase |-> <<"b","r","u","g","s","p","o","r","t">>, score |-> 40],  \* "brugsport": 0.4
    [phrase |-> <<"s","l","i","d","t","e">>, score |-> 35],  \* "slidte": 0.35
    [phrase |-> <<"t","æ","r","s","k","e","l">>, score |-> 35],  \* "tærskel": 0.35
    [phrase |-> <<"s","l","i","d","t">>, score |-> 30],  \* "slidt": 0.3
    [phrase |-> <<"m","a","n","g","l","e","r">>, score |-> 30],  \* "mangler": 0.3
    [phrase |-> <<"s","k","a","l"," ","r","e","p","a","r","e","r","e","s">>, score |-> 25],  \* "skal repareres": 0.25
    [phrase |-> <<"t","r","æ","n","g","e","r"," ","t","i","l">>, score |-> 25],  \* "trænger til": 0.25
    [phrase |-> <<"d","å","r","l","i","g"," ","s","t","a","n","d">>, score |-> 20],  \* "dårlig stand": 0.2
    [phrase |-> <<"d","å","r","l","i","g">>, score |-> 20],  \* "dårlig": 0.2
    [phrase |-> <<"r","e","p","a","r","a","t","i","o","n","s","o","b","j","e","k","t">>, score |-> 10],  \* "reparationsobjekt": 0.1
    [phrase |-> <<"t","i","l"," ","d","e","l","e">>, score |-> 5],  \* "til dele": 0.05
    [phrase |-> <<"d","e","f","e","k","t">>, score |-> 0],  \* "defekt": 0.0
    [phrase |-> <<"ø","d","e","l","a","g","t">>, score |-> 0],  \* "ødelagt": 0.0
    [phrase |-> <<"h","a","v","a","r","e","r","e","t">>, score |-> 0],  \* "havareret": 0.0
    [phrase |-> <<"s","k","r","o","t","e","t">>, score |-> 0] }  \* "skrotet": 0.0

POSITIVE_MODIFIERS ==
  { [phrase |-> <<"m","e","g","e","t">>, delta |-> 5],  \* "meget": 0.05
    [phrase |-> <<"s","u","p","e","r">>, delta |-> 5],  \* "super": 0.05
    [phrase |-> <<"r","i","g","t","i","g">>, delta |-> 5],  \* "rigtig": 0.05
    [phrase |-> <<"s","æ","r","l","i","g">>, delta |-> 5],  \* "særlig": 0.05
    [phrase |-> <<"e","k","s","t","r","a">>, delta |-> 5],  \* "ekstra": 0.05
    [phrase |-> <<"u","t","r","o","l","i","g">>, delta |-> 5] }  \* "utrolig": 0.05

NEGATIVE_MODIFIERS ==
  { [phrase |-> <<"l","i","d","t">>, delta |-> -5],  \* "lidt": -0.05
    [phrase |-> <<"n","o","g","e","t">>, delta |-> -5],  \* "noget": -0.05
    [phrase |-> <<"r","e","t">>, delta |-> -5],  \* "ret": -0.05
    [phrase |-> <<"t","e","m","m","e","l","i","g">>, delta |-> -10],  \* "temmelig": -0.1
    [phrase |-> <<"m","e","g","e","t">>, delta |-> -10] }  \* "meget": -0.1

ISSUE_PHRASES ==
  { [phrase |-> <<"r","u","s","t">>, delta |-> -10],  \* "rust": -0.1
    [phrase |-> <<"b","u","l","e","r">>, delta |-> -5],  \* "buler": -0.05
    [phrase |-> <<"r","i","d","s","e","r">>, delta |-> -3],  \* "ridser": -0.03
    [phrase |-> <<"s","l","i","t","a","g","e">>, delta |-> -5],  \* "slitage": -0.05
    [phrase |-> <<"m","o","t","o","r">>, delta |-> -15],  \* "motor": -0.15
    [phrase |-> <<"g","e","a","r">>, delta |-> -10],  \* "gear": -0.1
    [phrase |-> <<"b","r","e","m","s","e","r">>, delta |-> -10],  \* "bremser": -0.1
    [phrase |-> <<"e","l","e","k","t","r","o","n","i","k">>, delta |-> -8],  \* "elektronik": -0.08
    [phrase |-> <<"a","i","r","c","o","n">>, delta |-> -3],  \* "aircon": -0.03
    [phrase |-> <<"a","i","r","c","o","n","d","i","t","i","o","n">>, delta |-> -3] }  \* "aircondition": -0.03

InTable(table, phrase) == \E e \in table : e.phrase = phrase

Entry(table, phrase) == CHOOSE e \in table : e.phrase = phrase

\* ------------------------------------------------------- the classifier

Hundredths(h) == Frac(h, 100)

RECURSIVE SumDeltas(_)
SumDeltas(effects) ==
  IF effects = <<>> THEN 0 ELSE Head(effects).delta + SumDeltas(Tail(effects))

\* The first match wins.
FirstScore(matches) == Head(matches).score

\* max(scores)
RECURSIVE MaxScore(_)
MaxScore(matches) ==
  IF Len(matches) = 1 THEN Head(matches).score
  ELSE LET m == MaxScore(Tail(matches))
       IN  IF Head(matches).score >= m THEN Head(matches).score ELSE m

\* The matches list: one entry per phrase found in CONDITION_MAPPINGS, in order.
RECURSIVE BaseMatches(_)
BaseMatches(phrases) ==
  IF phrases = <<>> THEN <<>>
  ELSE (IF InTable(CONDITION_MAPPINGS, Head(phrases))
        THEN <<[phrase |-> Head(phrases),
                score |-> Entry(CONDITION_MAPPINGS, Head(phrases)).score]>>
        ELSE <<>>)
       \o BaseMatches(Tail(phrases))

NoMatch == <<[phrase |-> <<"n","o","_","m","a","t","c","h">>, score |-> 50]>>

calculate_base_score(phrases) ==
  LET matches == BaseMatches(phrases)
  IN  IF matches = <<>>
      THEN [base_score |-> Half, matches |-> NoMatch]
      ELSE [base_score |-> Hundredths(MaxScore(matches)), matches |-> matches]

\* First loop of apply_modifiers: the positive modifiers, in phrase order.
RECURSIVE PositiveEffects(_)
PositiveEffects(phrases) ==
  IF phrases = <<>> THEN <<>>
  ELSE (IF InTable(POSITIVE_MODIFIERS, Head(phrases))
        THEN <<[kind |-> "positive_modifier", phrase |-> Head(phrases),
                delta |-> Entry(POSITIVE_MODIFIERS, Head(phrases)).delta]>>
        ELSE <<>>)
       \o PositiveEffects(Tail(phrases))

\* Second loop: per phrase the negative modifier, then the issue phrase.
RECURSIVE NegativeEffects(_)
NegativeEffects(phrases) ==
  IF phrases = <<>> THEN <<>>
  ELSE (IF InTable(NEGATIVE_MODIFIERS, Head(phrases))
        THEN <<[kind |-> "negative_modifier", phrase |-> Head(phrases),
                delta |-> Entry(NEGATIVE_MODIFIERS, Head(phrases)).delta]>>
        ELSE <<>>)
       \o (IF InTable(ISSUE_PHRASES, Head(phrases))
           THEN <<[kind |-> "issue_phrase", phrase |-> Head(phrases),
                   delta |-> Entry(ISSUE_PHRASES, Head(phrases)).delta]>>
           ELSE <<>>)
       \o NegativeEffects(Tail(phrases))

\* max(0.0, min(1.0, x))
ClampUnit(x) == FracMax(Zero, FracMin(One, x))

\* The running score is clamped after every delta.
RECURSIVE ClampedAfterEach(_, _)
ClampedAfterEach(x, effects) ==
  IF effects = <<>> THEN ClampUnit(x)
  ELSE ClampedAfterEach(ClampUnit(FracAdd(x, Hundredths(Head(effects).delta))),
                        Tail(effects))

ApplyModifiersClampingEachStep(base_score, phrases) ==
  LET modifier_effects == PositiveEffects(phrases) \o NegativeEffects(phrases)
  IN  [final_score |-> ClampedAfterEach(base_score, modifier_effects),
       modifier_effects |-> modifier_effects]

apply_modifiers(base_score, phrases) ==
  LET modifier_effects == PositiveEffects(phrases) \o NegativeEffects(phrases)
      total_modifier == Hundredths(SumDeltas(modifier_effects))
  IN  [final_score |-> ClampUnit(FracAdd(base_score, total_modifier)),
       modifier_effects |-> modifier_effects]

\* phrases[:10]
FirstTen(s) == SubSeq(s, 1, IF Len(s) < 10 THEN Len(s) ELSE 10)

\* debug_info as parse_condition initialises it.
InitialTrace(condition_text) ==
  [original_text |-> condition_text, normalized_text |-> <<>>, phrases |-> <<>>,
   base_matches |-> <<>>, modifier_effects |-> <<>>,
   base_score |-> Half, final_score |-> Half]

\* An empty text is scored as the worst condition.
EmptyResultAsWorst(condition_text) ==
  [score |-> Zero,
   debug_info |-> [InitialTrace(condition_text) EXCEPT !.final_score = Zero]]

\* The early return for empty input: debug_info["final_score"] = 0.5;
\* return 0.5, debug_info
EmptyResult(condition_text) ==
  [score |-> Half, debug_info |-> InitialTrace(condition_text)]

\* parse_condition(condition_text): condition_text is None (Null) or a str
\* (Some(text)).  Returns the score and the debug_info trace.  No statement
\* of the try block is known to raise for a str; ExceptClause is the except
\* branch.
parse_condition(condition_text) ==
  IF condition_text = Null \/ Val(condition_text) = <<>>
     \/ strip(Val(condition_text)) = <<>>
  THEN EmptyResult(condition_text)
  ELSE LET normalized == normalize_text(Val(condition_text))
           phrases == extract_condition_phrases(normalized)
           base == calculate_base_score(phrases)
           final == apply_modifiers(base.base_score, phrases)
       IN  [score |-> final.final_score,
            debug_info |-> [original_text |-> condition_text,
                            normalized_text |-> normalized,
                            phrases |-> FirstTen(phrases),
                            base_matches |-> base.matches,
                            modifier_effects |-> final.modifier_effects,
                            base_score |-> base.base_score,
                            final_score |-> final.final_score]]

\* ------------------------------------------------------------ DataFrames
\* A DataFrame is a sequence of rows; a row maps column names to optional
\* values.  All rows of one frame have the same columns.

empty(frame) == frame = <<>> \/ DOMAIN frame[1] = {}

HasColumn(frame, col) == col \in DOMAIN frame[1]

\* df[col] = values (one value per row, in row order)
SetColumn(frame, col, values) ==
  Tuple([i \in DOMAIN frame |-> (col :> values[i]) @@ frame[i]], Len(frame))

\* df[col] = v (one scalar for every row)
SetColumnScalar(frame, col, v) == SetColumn(frame, col, [i \in DOMAIN frame |-> v])

\* The row positions where df[col].notna()
Mask(frame, col) == {i \in DOMAIN frame : notna(frame[i][col])}

\* df.loc[mask, col]: the present values in row order, with their row positions.
RECURSIVE Positions(_, _)
Positions(mask, n) ==
  IF n = 0 THEN <<>>
  ELSE Positions(mask, n - 1) \o (IF n \in mask THEN <<n>> ELSE <<>>)

\* ----------------------------------------------- scipy.stats.mstats.winsorize

\* 1-based rank of position i in a.argsort(); equal values are ranked in
\* position order (the values winsorize returns do not depend on how ties
\* are ordered).
Rank(a, i) ==
  1 + Cardinality({j \in DOMAIN a : a[j] < a[i] \/ (a[j] = a[i] /\ j < i)})

\* No value is replaced.
WinsorizeOff(a, low_limit, up_limit) == a

\* mstats.winsorize(a, limits=(low_limit, up_limit)) with limits in percent:
\*   lowidx = int(low_limit * n);  a[idx[:lowidx]] = a[idx[lowidx]]
\*   upidx = n - int(n * up_limit); a[idx[upidx:]] = a[idx[upidx - 1]]
\* (0-based in the library, 1-based here).
winsorize(a, low_limit, up_limit) ==
  LET n == Len(a)
      rank == Tuple([i \in DOMAIN a |-> Rank(a, i)], n)
      idx == Tuple([k \in DOMAIN a |-> CHOOSE i \in DOMAIN a : rank[i] = k], n)
      lowidx == (low_limit * n) \div 100
      a1 == IF low_limit # 0
            THEN Tuple([i \in DOMAIN a |->
                          IF rank[i] <= lowidx THEN a[idx[lowidx + 1]] ELSE a[i]], n)
            ELSE a
      upidx == n - ((n * up_limit) \div 100)
  IN  Tuple([i \in DOMAIN a |-> IF rank[i] > upidx THEN a1[idx[upidx]] ELSE a1[i]], n)

RECURSIVE SeqMin(_)
SeqMin(a) ==
  IF Len(a) = 1 THEN a[1]
  ELSE LET m == SeqMin(Tail(a)) IN IF a[1] <= m THEN a[1] ELSE m

RECURSIVE SeqMax(_)
SeqMax(a) ==
  IF Len(a) = 1 THEN a[1]
  ELSE LET m == SeqMax(Tail(a)) IN IF a[1] >= m THEN a[1] ELSE m

\* ------------------------------------------------------------ the scorer

NoScorer == [weights |-> <<>>, lower_percentile |-> 0, upper_percentile |-> 0,
             constructed |-> FALSE]

WeightKeys == {"price", "year", "kilometers", "condition"}

RECURSIVE SumOver(_, _)
SumOver(w, keys) ==
  IF keys = {} THEN 0
  ELSE LET k == CHOOSE x \in keys : TRUE IN w[k] + SumOver(w, keys \ {k})

\* sum(self.weights.values()), in thousandths
TotalWeight(w) == SumOver(w, DOMAIN w)

\* Settings.get_scoring_weights()
get_scoring_weights(s) ==
  [price |-> s.score_weight_price, year |-> s.score_weight_year,
   kilometers |-> s.score_weight_kilometers, condition |-> s.score_weight_condition]

\* The min-max step of _score_price/_score_year/_score_kilometers: the
\* normalised values of the winsorized values w (0.5 each when min == max;
\* inverted for price and kilometers).
MinMaxNormalizeDegenerateAsZero(w, invert) ==
  LET lo == SeqMin(w)
      hi == SeqMax(w)
  IN  Tuple([i \in DOMAIN w |->
               IF lo = hi THEN (IF invert THEN One ELSE Zero)
               ELSE IF invert THEN FracSub(One, Frac(w[i] - lo, hi - lo))
               ELSE Frac(w[i] - lo, hi - lo)], Len(w))

MinMaxNormalize(w, invert) ==
  LET lo == SeqMin(w)
      hi == SeqMax(w)
  IN  Tuple([i \in DOMAIN w |->
               IF lo = hi THEN Half
               ELSE IF invert THEN FracSub(One, Frac(w[i] - lo, hi - lo))
               ELSE Frac(w[i] - lo, hi - lo)], Len(w))

\* df[score_col] = 0.5; df.loc[mask, score_col] = normalized
AssignScoresMissingAsZero(frame, score_col, pos, normalized) ==
  SetColumn(frame, score_col,
            [i \in DOMAIN frame |->
               IF \E k \in DOMAIN pos : pos[k] = i
               THEN Some(normalized[CHOOSE k \in DOMAIN pos : pos[k] = i])
               ELSE Some(Zero)])

AssignScores(frame, score_col, pos, normalized) ==
  SetColumn(frame, score_col,
            [i \in DOMAIN frame |->
               IF \E k \in DOMAIN pos : pos[k] = i
               THEN Some(normalized[CHOOSE k \in DOMAIN pos : pos[k] = i])
               ELSE Some(Half)])

\* The common body of _score_price, _score_year and _score_kilometers.
ScoreAttribute(self, frame, col, score_col, invert) ==
  IF ~HasColumn(frame, col) THEN SetColumnScalar(frame, score_col, Some(Half))
  ELSE IF Mask(frame, col) = {} THEN SetColumnScalar(frame, score_col, Some(Half))
  ELSE LET pos == Positions(Mask(frame, col), Len(frame))
           values == Tuple([k \in DOMAIN pos |-> Val(frame[pos[k]][col])], Len(pos))
           winsorized == winsorize(values, self.lower_percentile,
                                   100 - self.upper_percentile)
       IN  AssignScores(frame, score_col, pos, MinMaxNormalize(winsorized, invert))

ScorePriceNotInverted(self, frame) ==
  ScoreAttribute(self, frame, "price_dkk", "price_score", FALSE)

_score_price(self, frame) ==
  ScoreAttribute(self, frame, "price_dkk", "price_score", TRUE)

_score_year(self, frame) ==
  ScoreAttribute(self, frame, "year", "year_score", FALSE)

_score_kilometers(self, frame) ==
  ScoreAttribute(self, frame, "kilometers", "kilometers_score", TRUE)

ScoreConditionNoClip(frame) ==
  IF ~HasColumn(frame, "condition_score")
  THEN SetColumnScalar(frame, "condition_score", Some(Half))
  ELSE SetColumn(frame, "condition_score",
                 [i \in DOMAIN frame |->
                    IF notna(frame[i].condition_score)
                    THEN frame[i].condition_score ELSE Some(Half)])

\* fillna(0.5) then clip(0.0, 1.0)
_score_condition(frame) ==
  IF ~HasColumn(frame, "condition_score")
  THEN SetColumnScalar(frame, "condition_score", Some(Half))
  ELSE SetColumn(frame, "condition_score",
                 [i \in DOMAIN frame |->
                    Some(FracClip(IF notna(frame[i].condition_score)
                                  THEN Val(frame[i].condition_score) ELSE Half,
                                  Zero, One))])

ComponentColumns == <<"price_score", "year_score", "kilometers_score", "condition_score">>

\* for component in [...]: if component not in df.columns: df[component] = 0.5
RECURSIVE DefaultComponents(_, _)
DefaultComponents(frame, k) ==
  IF k = 0 THEN frame
  ELSE LET f == DefaultComponents(frame, k - 1)
       IN  IF HasColumn(f, ComponentColumns[k]) THEN f
           ELSE SetColumnScalar(f, ComponentColumns[k], Some(Half))

Weight(w, key) == Frac(w[key], 1000)

WeightedSumWithoutCondition(row, w) ==
  FracAdd(FracAdd(FracMul(Val(row.price_score), Weight(w, "price")),
                  FracMul(Val(row.year_score), Weight(w, "year"))),
          FracMul(Val(row.kilometers_score), Weight(w, "kilometers")))

\* df["score_raw"] for one row
WeightedSum(row, w) ==
  FracAdd(FracAdd(FracAdd(FracMul(Val(row.price_score), Weight(w, "price")),
                          FracMul(Val(row.year_score), Weight(w, "year"))),
                  FracMul(Val(row.kilometers_score), Weight(w, "kilometers"))),
          FracMul(Val(row.condition_score), Weight(w, "condition")))

ClipScoreNot(s) == s

\* df["score"].clip(0, 100) on one value
ClipScore(s) == IF s < 0 THEN 0 ELSE IF s > 100 THEN 100 ELSE s

\* (score_raw * 100).round().astype(int)
ToPercent(raw) == RoundHalfEven(FracMul(raw, FracOfInt(100)))

\* _calculate_final_score: self.weights[key] raises KeyError for a missing key.
_calculate_final_score(self, frame) ==
  IF ~(WeightKeys \subseteq DOMAIN self.weights)
  THEN [raised |-> "KeyError", returned |-> Null]
  ELSE LET f == DefaultComponents(frame, Len(ComponentColumns))
           raw == Tuple([i \in DOMAIN f |-> WeightedSum(f[i], self.weights)], Len(f))
           withRaw == SetColumn(f, "score_raw", [i \in DOMAIN f |-> Some(raw[i])])
       IN  [raised |-> "none",
            returned |-> Some(SetColumn(withRaw, "score",
                              [i \in DOMAIN f |-> Some(ClipScore(ToPercent(raw[i])))]))]

\* scored_df = df.copy(): the working frame is a new object with df's values.
CopyFrame(frame) == frame

\* An empty frame is rejected.
ScoreListingsRejectingEmpty(self, frame) ==
  IF empty(frame) THEN [raised |-> "ValueError", returned |-> Null]
  ELSE _calculate_final_score(self,
         _score_condition(
           _score_kilometers(self,
             _score_year(self,
               _score_price(self, CopyFrame(frame))))))

\* ListingScorer.score_listings(df): what is returned or raised.
score_listings(self, frame) ==
  IF empty(frame) THEN [raised |-> "none", returned |-> Some(frame)]
  ELSE _calculate_final_score(self,
         _score_condition(
           _score_kilometers(self,
             _score_year(self,
               _score_price(self, CopyFrame(frame))))))

InputAliased(frame, outcome) ==
  IF outcome.raised = "none" THEN Val(outcome.returned) ELSE frame

\* The caller's frame after score_listings(frame) ended with outcome: every
\* assignment of the call went to the copy, so the frame is as it was.
InputAfterScoring(frame, outcome) == frame

SelfWithSwappedWeights(self) ==
  IF {"price", "year"} \subseteq DOMAIN self.weights
  THEN [self EXCEPT !.weights = [k \in DOMAIN self.weights |->
                                   IF k = "price" THEN self.weights["year"]
                                   ELSE IF k = "year" THEN self.weights["price"]
                                   ELSE self.weights[k]]]
  ELSE self

\* The scorer after score_listings: the method assigns to no attribute of self.
SelfAfterScoring(self) == self

AcceptAnyTotal(total_weight) == TRUE

\* 0.99 <= total_weight <= 1.01
TotalWeightOk(total_weight) == 990 <= total_weight /\ total_weight <= 1010

\* ListingScorer.__init__(weights): the new object, or ValueError.
\* `weights or settings.get_scoring_weights()`: None and {} take the defaults.
ListingScorer(weights, s) ==
  LET w == IF weights = Null \/ DOMAIN Val(weights) = {}
           THEN get_scoring_weights(s) ELSE Val(weights)
  IN  IF ~TotalWeightOk(TotalWeight(w))
      THEN [raised |-> "ValueError", returned |-> Null]
      ELSE [raised |-> "none",
            returned |-> Some([weights |-> w,
                               lower_percentile |-> s.winsorize_lower_percentile,
                               upper_percentile |-> s.winsorize_upper_percentile,
                               constructed |-> TRUE])]

\* ------------------------------------------------------------- the inputs

\* Settings(): the defaults of config.py, and a deployment that winsorizes
\* at the quartiles (both pass validate_scoring_weights).
SettingsChoices ==
  { [score_weight_price |-> 400, score_weight_year |-> 250,
     score_weight_kilometers |-> 250, score_weight_condition |-> 100,
     winsorize_lower_percentile |-> lo, winsorize_upper_percentile |-> 100 - lo]
    : lo \in {5, 25} }

\* Weight dictionaries handed to the constructor (thousandths).
WeightArgs ==
  { Null,
    Some([price |-> 1500, year |-> -500, kilometers |-> 0, condition |-> 4]),
    Some([price |-> 990]),
    Some([price |-> 500, year |-> 200, kilometers |-> 200, condition |-> 200]),
    Some([price |-> 600, year |-> 400, kilometers |-> 300, condition |-> 200]),
    Some([price |-> 400, year |-> 250, kilometers |-> 250, condition |-> 111]),
    Some([price |-> 400, year |-> 250, kilometers |-> 250, condition |-> 89]) }

\* Rows a caller puts in a frame directly (price in 10 000 DKK, kilometers in
\* 10 000 km: min-max scaling does not depend on the unit).
FrameRows ==
  { [price_dkk |-> Some(4), year |-> Some(2020), kilometers |-> Some(5),
     condition_score |-> Some(Frac(8, 10))],
    [price_dkk |-> Null, year |-> Some(2015), kilometers |-> Null,
     condition_score |-> Some(Frac(15, 10))],
    [price_dkk |-> Some(-1), year |-> Null, kilometers |-> Some(12),
     condition_score |-> Null] }

\* Scraped listings: the numeric fields as extracted, the condition as text.
ScrapedListings ==
  { [price_dkk |-> Some(12), year |-> Some(2018), kilometers |-> Some(8),
     condition_text |-> Some(<<"S","u","p","e","r"," ","s","u","p","e","r"," ",
                               "n","y","s","y","n","e","t","!">>)],
    [price_dkk |-> Some(6), year |-> Some(2019), kilometers |-> Some(0),
     condition_text |-> Some(<<"D","e","f","e","k","t"," ","m","o","t","o","r">>)] }

\* BilbasenScraper.normalize_scraped_data, the fields the scorer reads;
\* parsed is what parse_condition(scraped_listing.condition_text) returned.
normalize_scraped_data(scraped_listing, parsed) ==
  [price_dkk |-> scraped_listing.price_dkk, year |-> scraped_listing.year,
   kilometers |-> scraped_listing.kilometers,
   condition_score |-> Some(parsed.score)]

\* ------------------------------------------------------------ the machine

\* previous: what the call before returned, when that call was the same
\* operation on the same object and argument (else Null).
\* The scraper is not running.
Idle == [op |-> "none"]

NoCall == [op |-> "none", arg |-> Null, raised |-> "none", returned |-> Null,
           previous |-> Null]

Init ==
  /\ settings \in SettingsChoices
  /\ scorer = NoScorer
  /\ df = <<>>
  /\ call = NoCall
  /\ listings = <<>>
  /\ scraping = Idle

\* scorer = ListingScorer(weights), at configuration time (before a frame is
\* built): on ValueError the caller's variable keeps what it held.
Construct(weights) ==
  LET outcome == ListingScorer(weights, settings)
  IN  /\ df = <<>>
      /\ scorer' = IF outcome.raised = "none" THEN Val(outcome.returned) ELSE scorer
      /\ call' = [op |-> "ListingScorer", arg |-> weights,
                  raised |-> outcome.raised, returned |-> outcome.returned,
                  previous |-> Null]
      /\ UNCHANGED <<settings, df, listings, scraping>>

\* The caller appends a row to the frame it will score.
AddRow(row) ==
  /\ Len(df) < MaxListings
  /\ df' = Append(df, row)
  /\ call' = NoCall
  /\ UNCHANGED <<settings, scorer, listings, scraping>>

\* A scraped listing is normalised (its condition text classified) and appended.
AddScraped(scraped_listing) ==
  /\ Len(df) < MaxListings
  /\ LET parsed == parse_condition(scraped_listing.condition_text)
     IN  /\ df' = Append(df, normalize_scraped_data(scraped_listing, parsed))
         /\ call' = [op |-> "parse_condition", arg |-> scraped_listing.condition_text,
                     raised |-> "none", returned |-> Some(parsed),
                     previous |-> Null]
  /\ UNCHANGED <<settings, scorer, listings, scraping>>

\* result = scorer.score_listings(df); the caller makes the same call at most
\* twice in a row.
Score ==
  /\ scorer.constructed
  /\ call.previous = Null
  /\ LET outcome == score_listings(scorer, df)
     IN  /\ call' = [op |-> "score_listings", arg |-> Some(df),
                     raised |-> outcome.raised, returned |-> outcome.returned,
                     previous |-> IF call.op = "score_listings" /\ call.arg = Some(df)
                                  THEN Some([raised |-> call.raised,
                                             returned |-> call.returned])
                                  ELSE Null]
         /\ df' = InputAfterScoring(df, outcome)
         /\ scorer' = SelfAfterScoring(scorer)
  /\ UNCHANGED <<settings, listings, scraping>>

Next ==
  \/ \E weights \in WeightArgs : Construct(weights)
  \/ \E row \in FrameRows : AddRow(row)
  \/ \E scraped_listing \in ScrapedListings : AddScraped(scraped_listing)
  \/ Score

Spec == Init /\ [][Next]_vars

\* ------------------------------------------------- the classifier, driven

\* Most words in a text built word by word.
MaxWords == 3

\* Words a condition text is built from: a modifier that is in two tables
\* ("meget"), a positive modifier, an issue phrase, lexicon keys (one spelled
\* with a Danish letter, the halves of a two-word key) and a word spelled
\* with the sharp s, whose upper case is "SS".
Words ==
  { <<"m","e","g","e","t">>,
    <<"S","u","p","e","r">>,
    <<"r","u","s","t">>,
    <<"f","l","o","t">>,
    <<"g","o","d">>,
    <<"s","t","a","n","d">>,
    <<"p","æ","n">>,
    <<"t","i","l","f","r","e","d","ß","t","i","l","l","e","n","d","e">> }

\* Texts classified as a whole: None, empty and whitespace-only strings,
\* sentences, and lexicon keys on their own.
ConditionTexts ==
  { Null,
    Some(<<>>),
    Some(<<" ">>),
    Some(<<"\t","\n">>),
    Some(<<"B","i","l","e","n"," ","e","r"," ","i"," ","t","o","p","s","t","a","n","d"," ","o","g"," ","n","y","s","y","n","e","t">>),
    Some(<<"P","æ","n"," ","b","i","l"," ","m","e","n"," ","m","e","d"," ","r","u","s","t">>),
    Some(<<"D","e","f","e","k","t"," ","m","o","t","o","r">>),
    Some(<<"R","i","g","t","i","g"," ","g","o","d"," ","s","t","a","n","d">>),
    Some(<<"G","o","d"," ","S","t","a","n","d">>),
    Some(<<"N","Y","S","Y","N","E","T">>),
    Some(<<"N","o","r","m","a","l">>),
    Some(<<"Ø","d","e","l","a","g","t">>),
    Some(<<"l","i","d","t"," ","s","l","i","d","t">>),
    Some(<<"r","u","s","t"," ","r","u","s","t"," ","r","u","s","t"," ","r","u","s","t"," ","r","u","s","t"," ","r","u","s","t">>),
    Some(<<"S","u","p","e","r"," ","s","u","p","e","r"," ","n","y","s","y","n","e","t","!">>) }

\* The statements of parse_condition's try block that call out.
TrySites ==
  { "normalize_text", "extract_condition_phrases", "calculate_base_score",
    "apply_modifiers", "logger.debug" }

\* debug_info when the statement at site raises: the entries of the complete
\* trace that are assigned before that statement, the initial ones otherwise.
TraceBefore(complete, site) ==
  LET initial == InitialTrace(complete.original_text)
      early == IF site \in {"normalize_text", "extract_condition_phrases"}
               THEN initial ELSE complete
      mid == IF site = "calculate_base_score" THEN initial ELSE early
      late == IF site = "apply_modifiers" THEN initial ELSE mid
  IN  [original_text |-> complete.original_text,
       normalized_text |-> early.normalized_text, phrases |-> early.phrases,
       base_score |-> mid.base_score, base_matches |-> mid.base_matches,
       final_score |-> late.final_score,
       modifier_effects |-> late.modifier_effects]

\* The except clause re-raises.
ExceptClauseReraises(debug_info, e) ==
  [raised |-> "Exception", returned |-> Null]

\* except Exception as e: debug_info["error"] = str(e); return 0.5, debug_info
ExceptClause(debug_info, e) ==
  [raised |-> "none",
   returned |-> Some([score |-> Half,
                      debug_info |-> ("error" :> e) @@ debug_info])]

\* score, debug_info = parse_condition(condition_text)
Classify(condition_text) ==
  /\ call' = [op |-> "parse_condition", arg |-> condition_text,
              raised |-> "none", returned |-> Some(parse_condition(condition_text)),
              previous |-> Null]
  /\ UNCHANGED <<settings, scorer, df, listings, scraping>>

\* A session starts by classifying a listed text.
ClassifyListed(condition_text) ==
  /\ call.op = "none"
  /\ Classify(condition_text)

\* The text classified last is classified again with one more word.
ClassifyLonger(word) ==
  /\ call.op = "parse_condition"
  /\ call.arg # Null
  /\ call.previous = Null
  /\ Len(split(Val(call.arg))) < MaxWords
  /\ Classify(Some(IF Val(call.arg) = <<>> THEN word
                   ELSE Val(call.arg) \o <<" ">> \o word))

\* The text classified last is classified again and this time the statement
\* at site, inside the try block, raises an Exception.  The try block is
\* entered for texts that are not empty or whitespace-only.
ClassifyRaising(site) ==
  /\ call.op = "parse_condition"
  /\ call.previous = Null
  /\ call.arg # Null
  /\ strip(Val(call.arg)) # <<>>
  /\ LET outcome == ExceptClause(TraceBefore(Val(call.returned).debug_info, site),
                                 site)
     IN  call' = [op |-> "parse_condition", arg |-> call.arg,
                  raised |-> outcome.raised, returned |-> outcome.returned,
                  previous |-> Some([raised |-> call.raised,
                                     returned |-> call.returned])]
  /\ UNCHANGED <<settings, scorer, df, listings, scraping>>

TextInit ==
  /\ settings \in {s \in SettingsChoices : s.winsorize_lower_percentile = 5}
  /\ scorer = NoScorer
  /\ df = <<>>
  /\ call = NoCall
  /\ listings = <<>>
  /\ scraping = Idle

TextNext ==
  \/ \E condition_text \in ConditionTexts : ClassifyListed(condition_text)
  \/ \E word \in Words : ClassifyLonger(word)
  \/ \E site \in TrySites : ClassifyRaising(site)

SpecText == TextInit /\ [][TextNext]_vars

\* ------------------------------------------------------- the listing table
\* A row of the table has the id, the url (unique), the four attributes the
\* scorer reads and the four stored scores; every attribute and score is
\* optional.

\* Most rows stored.
MaxStored == 3

\* rescore_all_listings reads the table with limit=10000.
RescoreLimit == 10000

\* ListingCRUD.get_listing_by_url: the position of the row, or None.
get_listing_by_url(table, url) ==
  IF \E i \in DOMAIN table : table[i].url = url
  THEN Some(CHOOSE i \in DOMAIN table : table[i].url = url)
  ELSE Null

\* The id the database gives the next row: one more than the largest id
\* stored (INTEGER PRIMARY KEY without AUTOINCREMENT), 1 in an empty table.
NextId(table) ==
  IF table = <<>> THEN 1
  ELSE 1 + (CHOOSE m \in {table[i].id : i \in DOMAIN table} :
              \A i \in DOMAIN table : table[i].id <= m)

\* ListingCRUD.create_listing: the new row gets the next id and no scores.
create_listing(table, listing) ==
  Append(table,
         [id |-> NextId(table), url |-> listing.url,
          price_dkk |-> listing.price_dkk, year |-> listing.year,
          kilometers |-> listing.kilometers,
          condition_score |-> listing.condition_score,
          score |-> Null, price_score |-> Null, year_score |-> Null,
          kilometers_score |-> Null])

\* model_dump() without exclude_unset: every field of ListingUpdate is
\* assigned, the ones not set as None.
UpdateListingUnsetAsNone(table, listing_id, listing_update) ==
  Tuple([i \in DOMAIN table |->
           IF table[i].id = listing_id
           THEN listing_update
                @@ [f \in DOMAIN table[i] \ {"id", "url"} |-> Null]
                @@ table[i]
           ELSE table[i]], Len(table))

\* ListingCRUD.update_listing: the fields set in listing_update are assigned
\* to the row with that id; without such a row nothing changes.
update_listing(table, listing_id, listing_update) ==
  Tuple([i \in DOMAIN table |->
           IF table[i].id = listing_id THEN listing_update @@ table[i]
           ELSE table[i]], Len(table))

\* Every listing is inserted, also one whose url is stored.
UpsertAlwaysCreates(table, listing) == create_listing(table, listing)

\* ListingCRUD.upsert_listing: ListingUpdate(**listing.model_dump()) sets
\* every field of ListingCreate that ListingUpdate has (not the url, and no
\* score).
upsert_listing(table, listing) ==
  LET existing == get_listing_by_url(table, listing.url)
  IN  IF existing # Null
      THEN update_listing(table, table[Val(existing)].id,
                          [price_dkk |-> listing.price_dkk, year |-> listing.year,
                           kilometers |-> listing.kilometers,
                           condition_score |-> listing.condition_score])
      ELSE create_listing(table, listing)

\* ORDER BY score DESC: rows without a score come last; rows with equal
\* scores are taken in id order (SQL leaves their order open; SQLite, the
\* configured database, scans the table in id order and its sort keeps that
\* order among equal keys).
OrderPosition(table, i) ==
  LET key(r) == IF r.score = Null THEN -1 ELSE Val(r.score)
  IN  1 + Cardinality({j \in DOMAIN table :
                         \/ key(table[j]) > key(table[i])
                         \/ key(table[j]) = key(table[i]) /\ j < i})

\* ListingCRUD.get_listings(session, skip, limit) with the default ordering
\* and no filter.
get_listings(table, skip, limit) ==
  LET n == Len(table)
      position == Tuple([i \in DOMAIN table |-> OrderPosition(table, i)], n)
      ordered == Tuple([k \in DOMAIN table |->
                          table[CHOOSE i \in DOMAIN table : position[i] = k]], n)
      last == IF skip + limit < n THEN skip + limit ELSE n
  IN  IF last > skip THEN SubSeq(ordered, skip + 1, last) ELSE <<>>

\* update_listing for every row of scored_df, in row order.
RECURSIVE UpdateScores(_, _, _)
UpdateScores(table, scored_df, k) ==
  IF k = 0 THEN table
  ELSE update_listing(UpdateScores(table, scored_df, k - 1),
                      Val(scored_df[k].id),
                      [score |-> scored_df[k].score,
                       price_score |-> scored_df[k].price_score,
                       year_score |-> scored_df[k].year_score,
                       kilometers_score |-> scored_df[k].kilometers_score])

\* The frame rescore_all_listings builds from the rows it read.
ListingsFrame(all_listings) ==
  Tuple([i \in DOMAIN all_listings |->
           [id |-> Some(all_listings[i].id),
            price_dkk |-> all_listings[i].price_dkk,
            year |-> all_listings[i].year,
            kilometers |-> all_listings[i].kilometers,
            condition_score |-> all_listings[i].condition_score]],
        Len(all_listings))

\* score_listings_dataframe(df): a scorer with the configured weights scores df.
score_listings_dataframe(frame, s) ==
  LET built == ListingScorer(Null, s)
  IN  IF built.raised # "none" THEN [raised |-> built.raised, returned |-> Null]
      ELSE score_listings(Val(built.returned), frame)

\* Only the rows that have no score yet are rescored.
RescoreOnlyUnscored(table, s) ==
  LET all_listings == get_listings(table, 0, RescoreLimit)
      outcome == score_listings_dataframe(ListingsFrame(all_listings), s)
      fresh == SelectSeq(Val(outcome.returned),
                         LAMBDA r : table[CHOOSE i \in DOMAIN table :
                                            table[i].id = Val(r.id)].score = Null)
  IN  IF all_listings = <<>>
      THEN [raised |-> "none", returned |-> Some(0), listings |-> table]
      ELSE [raised |-> "none", returned |-> Some(Len(fresh)),
            listings |-> UpdateScores(table, fresh, Len(fresh))]

\* rescore_all_listings(session): what it returns or raises, and the table
\* afterwards.
rescore_all_listings(table, s) ==
  LET all_listings == get_listings(table, 0, RescoreLimit)
      outcome == score_listings_dataframe(ListingsFrame(all_listings), s)
  IN  IF all_listings = <<>>
      THEN [raised |-> "none", returned |-> Some(0), listings |-> table]
      ELSE IF outcome.raised # "none"
      THEN [raised |-> outcome.raised, returned |-> Null, listings |-> table]
      ELSE [raised |-> "none", returned |-> Some(Len(Val(outcome.returned))),
            listings |-> UpdateScores(table, Val(outcome.returned),
                                      Len(Val(outcome.returned)))]

\* What scrape_bilbasen_listings returns: normalised listings.  Two of them
\* have the same url, the second with another price and no kilometers.
ListingCreates ==
  { [url |-> "u1", price_dkk |-> Some(4), year |-> Some(2015),
     kilometers |-> Some(12), condition_score |-> Some(Frac(8, 10))],
    [url |-> "u1", price_dkk |-> Some(9), year |-> Some(2015),
     kilometers |-> Null, condition_score |-> Some(Frac(8, 10))],
    [url |-> "u2", price_dkk |-> Some(6), year |-> Some(2019),
     kilometers |-> Some(5), condition_score |-> Some(Half)],
    [url |-> "u3", price_dkk |-> Null, year |-> Some(2012),
     kilometers |-> Some(0), condition_score |-> Some(One)],
    [url |-> "u4", price_dkk |-> Some(12), year |-> Some(2020),
     kilometers |-> Some(8), condition_score |-> Some(Frac(3, 10))] }

\* A scrape returns no listing, one, or two of which the first has the url
\* "u1" (the second may have it too).
ScrapeResults ==
  {<<>>} \cup {<<a>> : a \in ListingCreates}
         \cup {<<a, b>> : a \in {c \in ListingCreates : c.url = "u1"},
                          b \in ListingCreates}

\* The storing loop of scrape_sync over the first k scraped listings: the
\* table, and how many stored listings had a score already.
RECURSIVE StoreScraped(_, _, _)
StoreScraped(table, scraped_listings, k) ==
  IF k = 0 THEN [listings |-> table, scored_count |-> 0]
  ELSE LET before == StoreScraped(table, scraped_listings, k - 1)
           after == upsert_listing(before.listings, scraped_listings[k])
           stored == after[Val(get_listing_by_url(after, scraped_listings[k].url))]
       IN  [listings |-> after,
            scored_count |-> before.scored_count
                             + (IF stored.score # Null THEN 1 ELSE 0)]

\* POST /rescore
RescoreListings ==
  /\ LET outcome == rescore_all_listings(listings, settings)
     IN  /\ listings' = outcome.listings
         /\ call' = [op |-> "rescore_listings", arg |-> Null,
                     raised |-> IF outcome.raised = "none" THEN "none"
                                ELSE "HTTPException",
                     returned |-> outcome.returned, previous |-> Null]
  /\ UNCHANGED <<settings, scorer, df, scraping>>

\* POST /scrape/sync, the scrape having returned scraped_listings: every
\* listing is upserted and, when one was stored, all listings are rescored.
\* The request's own arguments (max_pages, include_details) only reach the
\* scraper and are not modelled.
ScrapeSync(scraped_listings) ==
  /\ LET stored == StoreScraped(listings, scraped_listings, Len(scraped_listings))
         stored_count == Len(scraped_listings)
         outcome == IF stored_count > 0
                    THEN rescore_all_listings(stored.listings, settings)
                    ELSE [raised |-> "none", returned |-> Null,
                          listings |-> stored.listings]
     IN  /\ Len(stored.listings) <= MaxStored
         /\ listings' = outcome.listings
         /\ call' = [op |-> "scrape_sync", arg |-> Null,
                     raised |-> IF outcome.raised = "none" THEN "none"
                                ELSE "HTTPException",
                     returned |-> Some([scraped_count |-> Len(scraped_listings),
                                        stored_count |-> stored_count,
                                        scored_count |-> stored.scored_count]),
                     previous |-> Null]
  /\ UNCHANGED <<settings, scorer, df, scraping>>

\* The storing loop of startup_event over the first k scraped listings:
\* create_listing, and for a url that is stored already every field of the
\* scraped listing is assigned to the stored row.
RECURSIVE StoreAtStartup(_, _, _)
StoreAtStartup(table, scraped_listings, k) ==
  IF k = 0 THEN table
  ELSE LET before == StoreAtStartup(table, scraped_listings, k - 1)
           existing == get_listing_by_url(before, scraped_listings[k].url)
       IN  IF existing = Null THEN create_listing(before, scraped_listings[k])
           ELSE update_listing(before, before[Val(existing)].id,
                               [url |-> scraped_listings[k].url,
                                price_dkk |-> scraped_listings[k].price_dkk,
                                year |-> scraped_listings[k].year,
                                kilometers |-> scraped_listings[k].kilometers,
                                condition_score |-> scraped_listings[k].condition_score])

\* The scraped listings whose create_listing fails on the unique url.
Clashes(table, scraped_listings) ==
  {k \in DOMAIN scraped_listings :
     get_listing_by_url(StoreAtStartup(table, scraped_listings, k - 1),
                        scraped_listings[k].url) # Null}

\* What a scrape returns to the start-up handler and to the launcher here:
\* no listing or one.
StartupScrapes == {<<>>} \cup {<<a>> : a \in ListingCreates}

\* range(1, max_pages + 1) in scrape_search_results_json: the page numbers,
\* or the TypeError of None + 1.
PageNumbers(max_pages) ==
  IF max_pages = Null THEN [raised |-> "TypeError", returned |-> Null]
  ELSE [raised |-> "none", returned |-> Some(1 .. Val(max_pages))]

\* startup_event calls scrape_bilbasen_listings(max_pages=None, use_json=True).
StartupMaxPages == Null

\* server.py startup_event outside tests.  The scrape raises when the page
\* numbers cannot be formed; otherwise it returns scraped_listings, which are
\* stored, and all listings are rescored.  After a create_listing that failed
\* in commit, the session either serves the query for the existing row
\* (session_usable) or raises on it, which ends the handler before the
\* rescoring.  The handler logs every exception and raises none, and closes
\* the session in its finally clause.  The call returns nothing: returned
\* holds what it logs.
startup_event ==
  /\ IF PageNumbers(StartupMaxPages).raised # "none"
     THEN /\ listings' = listings
          /\ call' = [op |-> "startup_event", arg |-> Null, raised |-> "none",
                      returned |-> Some([logged |-> PageNumbers(StartupMaxPages).raised,
                                         rescored_count |-> Null,
                                         session_closed |-> TRUE]),
                      previous |-> Null]
     ELSE \E scraped_listings \in StartupScrapes, session_usable \in BOOLEAN :
            LET clashes == Clashes(listings, scraped_listings)
                first == CHOOSE k \in clashes : \A j \in clashes : k <= j
                stored == IF session_usable
                          THEN StoreAtStartup(listings, scraped_listings,
                                              Len(scraped_listings))
                          ELSE StoreAtStartup(listings, scraped_listings, first - 1)
                outcome == IF session_usable
                           THEN rescore_all_listings(stored, settings)
                           ELSE [raised |-> "PendingRollbackError", returned |-> Null,
                                 listings |-> stored]
            IN  /\ session_usable \/ clashes # {}
                /\ Len(stored) <= MaxStored
                /\ listings' = outcome.listings
                /\ call' = [op |-> "startup_event", arg |-> Null, raised |-> "none",
                            returned |-> Some([logged |-> outcome.raised,
                                               rescored_count |-> outcome.returned,
                                               session_closed |-> TRUE]),
                            previous |-> Null]
  /\ UNCHANGED <<settings, scorer, df, scraping>>

\* Every field of the scraped listing, also one that is None.
AllFields(listing) == listing

\* The fields of a scraped listing that are not None, as the launcher
\* assigns them to the stored row.
NonNullFields(listing) ==
  [field \in {f \in DOMAIN listing : f = "url" \/ listing[f] # Null} |-> listing[field]]

\* The storing loop of the launcher over the first k scraped listings: a
\* stored url gets the fields of the scraped listing that are not None, any
\* other listing is created.
RECURSIVE StoreAtLaunch(_, _, _)
StoreAtLaunch(table, scraped_listings, k) ==
  IF k = 0 THEN [listings |-> table, stored_count |-> 0, updated_count |-> 0]
  ELSE LET before == StoreAtLaunch(table, scraped_listings, k - 1)
           existing == get_listing_by_url(before.listings, scraped_listings[k].url)
       IN  IF existing # Null
           THEN [listings |-> update_listing(before.listings,
                                             before.listings[Val(existing)].id,
                                             NonNullFields(scraped_listings[k])),
                 stored_count |-> before.stored_count,
                 updated_count |-> before.updated_count + 1]
           ELSE [listings |-> create_listing(before.listings, scraped_listings[k]),
                 stored_count |-> before.stored_count + 1,
                 updated_count |-> before.updated_count]

\* launch.py main, up to the launch of the server, the scrape having
\* returned scraped_listings: the listings are stored and all listings are
\* rescored; an exception of the rescoring is printed and ends the launcher.
\* returned holds the three counts it prints.
main(scraped_listings) ==
  /\ LET stored == StoreAtLaunch(listings, scraped_listings, Len(scraped_listings))
         outcome == rescore_all_listings(stored.listings, settings)
     IN  /\ Len(stored.listings) <= MaxStored
         /\ listings' = outcome.listings
         /\ call' = [op |-> "main", arg |-> Null, raised |-> "none",
                     returned |-> IF outcome.raised # "none" THEN Null
                                  ELSE Some([stored_count |-> stored.stored_count,
                                             updated_count |-> stored.updated_count,
                                             rescored_count |-> Val(outcome.returned)]),
                     previous |-> Null]
  /\ UNCHANGED <<settings, scorer, df, scraping>>

StoreInit ==
  /\ settings \in {s \in SettingsChoices : s.winsorize_lower_percentile = 5}
  /\ scorer = NoScorer
  /\ df = <<>>
  /\ call = NoCall
  /\ listings = <<>>
  /\ scraping = Idle

StoreNext ==
  \/ RescoreListings
  \/ \E scraped_listings \in ScrapeResults : ScrapeSync(scraped_listings)
  \/ startup_event
  \/ \E scraped_listings \in StartupScrapes : main(scraped_listings)

SpecStore == StoreInit /\ [][StoreNext]_vars

\* ---------------------------------------------------- ListingCRUD, driven
\* Largest id given to a row.
MaxId == 3

\* ListingCRUD.get_listing: the position of the row with that id, or None.
get_listing(table, listing_id) ==
  IF \E i \in DOMAIN table : table[i].id = listing_id
  THEN Some(CHOOSE i \in DOMAIN table : table[i].id = listing_id)
  ELSE Null

\* ListingCRUD.delete_listing: the table without the row with that id.
delete_listing(table, listing_id) ==
  SelectSeq(table, LAMBDA r : r.id # listing_id)

\* The listings handed to create_listing and upsert_listing.
CrudCreates == {a \in ListingCreates : a.url \in {"u2", "u3", "u4"}}

\* The ListingUpdate objects handed to update_listing, as the fields set:
\* none, one, or several, a set field may hold None.
ListingUpdates ==
  { <<>>,
    [score |-> Some(20)],
    [score |-> Some(80), price_dkk |-> Null] }

\* The ids handed to get_listing, update_listing and delete_listing: the last
\* one is never stored.
ListingIds == 1 .. (MaxId + 1)

\* ListingCRUD.create_listing(session, listing): the commit fails on the
\* unique url when the url is stored, and nothing is added.
CreateListing(listing) ==
  /\ IF get_listing_by_url(listings, listing.url) # Null
     THEN /\ listings' = listings
          /\ call' = [op |-> "create_listing", arg |-> Some(listing),
                      raised |-> "IntegrityError", returned |-> Null,
                      previous |-> Null]
     ELSE /\ NextId(listings) <= MaxId
          /\ listings' = create_listing(listings, listing)
          /\ call' = [op |-> "create_listing", arg |-> Some(listing),
                      raised |-> "none",
                      returned |-> Some(listings'[Len(listings')]),
                      previous |-> Null]
  /\ UNCHANGED <<settings, scorer, df, scraping>>

\* ListingCRUD.upsert_listing(session, listing)
UpsertListing(listing) ==
  /\ get_listing_by_url(listings, listing.url) = Null => NextId(listings) <= MaxId
  /\ listings' = upsert_listing(listings, listing)
  /\ call' = [op |-> "upsert_listing", arg |-> Some(listing), raised |-> "none",
              returned |-> Some(listings'[Val(get_listing_by_url(listings',
                                                                 listing.url))]),
              previous |-> Null]
  /\ UNCHANGED <<settings, scorer, df, scraping>>

\* ListingCRUD.update_listing(session, listing_id, listing_update)
UpdateListing(listing_id, listing_update) ==
  /\ listings' = update_listing(listings, listing_id, listing_update)
  /\ call' = [op |-> "update_listing",
              arg |-> Some(<<listing_id, listing_update>>), raised |-> "none",
              returned |-> IF get_listing(listings, listing_id) = Null THEN Null
                           ELSE Some(listings'[Val(get_listing(listings',
                                                               listing_id))]),
              previous |-> Null]
  /\ UNCHANGED <<settings, scorer, df, scraping>>

\* ListingCRUD.delete_listing(session, listing_id)
DeleteListing(listing_id) ==
  /\ listings' = delete_listing(listings, listing_id)
  /\ call' = [op |-> "delete_listing", arg |-> Some(listing_id),
              raised |-> "none",
              returned |-> Some(get_listing(listings, listing_id) # Null),
              previous |-> Null]
  /\ UNCHANGED <<settings, scorer, df, scraping>>

\* ORDER BY order_by ASC or DESC as SQLite applies it: NULL is the smallest
\* value, rows with equal values stay in id (scan) order; without the
\* attribute no ordering is applied and the rows come in id order.
OrderPositionBy(table, i, order_by, order_desc) ==
  LET key(r) == IF r[order_by] = Null THEN -1 ELSE Val(r[order_by])
      before(a, b) == IF order_desc THEN key(a) > key(b) ELSE key(a) < key(b)
  IN  IF order_by \notin DOMAIN table[i]
      THEN i
      ELSE 1 + Cardinality({j \in DOMAIN table :
                              \/ before(table[j], table[i])
                              \/ key(table[j]) = key(table[i]) /\ j < i})

\* The offset is left out: every window starts at the first row.
GetListingsWithoutOffset(table, skip, limit, order_by, order_desc, min_price) ==
  LET matching == IF min_price = Null THEN table
                  ELSE SelectSeq(table, LAMBDA r : /\ r.price_dkk # Null
                                                   /\ Val(r.price_dkk) >= Val(min_price))
      n == Len(matching)
      ordered == Tuple([k \in DOMAIN matching |->
                          matching[CHOOSE i \in DOMAIN matching :
                                     OrderPositionBy(matching, i, order_by,
                                                     order_desc) = k]], n)
  IN  SubSeq(ordered, 1, IF limit < n THEN limit ELSE n)

\* ListingCRUD.get_listings(session, skip, limit, order_by, order_desc,
\* min_price): the filter on the price, the ordering, the window.
get_listings_where(table, skip, limit, order_by, order_desc, min_price) ==
  LET matching == IF min_price = Null THEN table
                  ELSE SelectSeq(table, LAMBDA r : /\ r.price_dkk # Null
                                                   /\ Val(r.price_dkk) >= Val(min_price))
      n == Len(matching)
      position == Tuple([i \in DOMAIN matching |->
                           OrderPositionBy(matching, i, order_by, order_desc)], n)
      ordered == Tuple([k \in DOMAIN matching |->
                          matching[CHOOSE i \in DOMAIN matching : position[i] = k]], n)
      last == IF skip + limit < n THEN skip + limit ELSE n
  IN  IF last > skip THEN SubSeq(ordered, skip + 1, last) ELSE <<>>

\* The score filter is left out.
TopListingsWithUnscored(table, limit) ==
  get_listings_where(table, 0, limit, "score", TRUE, Null)

\* ListingCRUD.get_top_listings(session, limit)
get_top_listings(table, limit) ==
  get_listings_where(SelectSeq(table, LAMBDA r : r.score # Null),
                     0, limit, "score", TRUE, Null)

\* The get_listings queries made: the default ordering in windows of two and
\* of one, the cheapest listings from 5 up in windows of one, and an ordering
\* by something that is no attribute.
Queries ==
  { [skip |-> 0, limit |-> 2, order_by |-> "score", order_desc |-> TRUE,
     min_price |-> Null],
    [skip |-> 2, limit |-> 2, order_by |-> "score", order_desc |-> TRUE,
     min_price |-> Null],
    [skip |-> 1, limit |-> 1, order_by |-> "score", order_desc |-> TRUE,
     min_price |-> Null],
    [skip |-> 0, limit |-> 1, order_by |-> "price_dkk", order_desc |-> FALSE,
     min_price |-> Some(5)],
    [skip |-> 1, limit |-> 1, order_by |-> "price_dkk", order_desc |-> FALSE,
     min_price |-> Some(5)],
    [skip |-> 1, limit |-> 2, order_by |-> "colour", order_desc |-> TRUE,
     min_price |-> Null] }

\* The limits handed to get_top_listings.
TopLimits == 1 .. 2

\* ListingCRUD.get_listings(session, skip, limit, order_by, order_desc, min_price)
GetListings(skip, limit, order_by, order_desc, min_price) ==
  /\ call' = [op |-> "get_listings",
              arg |-> Some([skip |-> skip, limit |-> limit, order_by |-> order_by,
                            order_desc |-> order_desc, min_price |-> min_price]),
              raised |-> "none",
              returned |-> Some(get_listings_where(listings, skip, limit, order_by,
                                                   order_desc, min_price)),
              previous |-> Null]
  /\ UNCHANGED <<settings, scorer, df, listings, scraping>>

\* ListingCRUD.get_top_listings(session, limit)
GetTopListings(limit) ==
  /\ call' = [op |-> "get_top_listings", arg |-> Some(limit), raised |-> "none",
              returned |-> Some(get_top_listings(listings, limit)),
              previous |-> Null]
  /\ UNCHANGED <<settings, scorer, df, listings, scraping>>

CrudInit ==
  /\ settings \in {s \in SettingsChoices : s.winsorize_lower_percentile = 5}
  /\ scorer = NoScorer
  /\ df = <<>>
  /\ call = NoCall
  /\ listings = <<>>
  /\ scraping = Idle

CrudNext ==
  \/ \E listing \in CrudCreates : CreateListing(listing)
  \/ \E listing \in CrudCreates : UpsertListing(listing)
  \/ \E listing_id \in ListingIds, listing_update \in ListingUpdates :
       UpdateListing(listing_id, listing_update)
  \/ \E listing_id \in ListingIds : DeleteListing(listing_id)
  \/ \E q \in Queries :
       GetListings(q.skip, q.limit, q.order_by, q.order_desc, q.min_price)
  \/ \E limit \in TopLimits : GetTopListings(limit)

SpecCRUD == CrudInit /\ [][CrudNext]_vars

\* ------------------------------------------------------ score statistics
\* Most listings stored when the statistics are taken.
MaxScored == 2

\* Every upper bound is taken into the range below it.
ScoreRangeUpperInclusive(score) ==
  IF score <= 20 THEN "0-19"
  ELSE IF score <= 40 THEN "20-39"
  ELSE IF score <= 60 THEN "40-59"
  ELSE IF score <= 80 THEN "60-79"
  ELSE "80-100"

\* The CASE expression of ranges_query.
ScoreRange(score) ==
  IF score < 20 THEN "0-19"
  ELSE IF score < 40 THEN "20-39"
  ELSE IF score < 60 THEN "40-59"
  ELSE IF score < 80 THEN "60-79"
  ELSE "80-100"

\* The scores that are not null, in table order.
StoredScores(table) ==
  LET scored == SelectSeq(table, LAMBDA r : r.score # Null)
  IN  Tuple([i \in DOMAIN scored |-> Val(scored[i].score)], Len(scored))

RECURSIVE SumOf(_, _)
SumOf(values, k) == IF k = 0 THEN 0 ELSE values[k] + SumOf(values, k - 1)

\* Every row is counted, also one without a score.
ScoreStatsCountingRows(table) ==
  LET scores == StoredScores(table)
  IN  IF table = <<>>
      THEN [min_score |-> 0, max_score |-> 0, mean_score |-> Zero,
            total_listings |-> 0, score_ranges |-> <<>>]
      ELSE [min_score |-> 0, max_score |-> 0, mean_score |-> Zero,
            total_listings |-> Len(table),
            score_ranges |-> [b \in {ScoreRange(scores[i]) : i \in DOMAIN scores} |->
                                Cardinality({i \in DOMAIN scores :
                                               ScoreRange(scores[i]) = b})]]

\* ListingCRUD.get_score_stats(session): min, max, avg and count over the
\* rows with a score, and the number of such rows per range that has any.
get_score_stats(table) ==
  LET scores == StoredScores(table)
      total_count == Len(scores)
      min_score == CHOOSE v \in {scores[i] : i \in DOMAIN scores} :
                     \A i \in DOMAIN scores : v <= scores[i]
      max_score == CHOOSE v \in {scores[i] : i \in DOMAIN scores} :
                     \A i \in DOMAIN scores : v >= scores[i]
      mean_score == Frac(SumOf(scores, total_count), total_count)
  IN  IF total_count = 0
      THEN [min_score |-> 0, max_score |-> 0, mean_score |-> Zero,
            total_listings |-> 0, score_ranges |-> <<>>]
      ELSE [min_score |-> min_score, max_score |-> max_score,
            mean_score |-> mean_score,
            total_listings |-> total_count,
            score_ranges |-> [b \in {ScoreRange(scores[i]) : i \in DOMAIN scores} |->
                                Cardinality({i \in DOMAIN scores :
                                               ScoreRange(scores[i]) = b})]]

\* The scores given to listings here: both ends of every range.
StatScores == {0, 19, 20, 39, 40, 59, 60, 79, 80, 100}

\* ListingCRUD.get_score_stats(session)
GetScoreStats ==
  /\ call' = [op |-> "get_score_stats", arg |-> Null, raised |-> "none",
              returned |-> Some(get_score_stats(listings)), previous |-> Null]
  /\ UNCHANGED <<settings, scorer, df, listings, scraping>>

\* Listings are created, get or lose a score, and the statistics are taken.
StatsNext ==
  \/ \E listing \in CrudCreates :
       Len(listings) < MaxScored /\ CreateListing(listing)
  \/ \E listing_id \in 1 .. MaxScored, score \in StatScores :
       UpdateListing(listing_id, [score |-> Some(score)])
  \/ \E listing_id \in 1 .. MaxScored : UpdateListing(listing_id, [score |-> Null])
  \/ GetScoreStats

SpecStats == CrudInit /\ [][StatsNext]_vars

\* --------------------------------------------- the page client, driven
\* Largest max_retries handed to get_page_with_retry.
MaxRetries == 2

\* settings.retry_attempts
RetryAttempts == 3

\* How one attempt of get_page_with_retry can go: new_page raises, page.goto
\* raises the DNS error or another error, there is no response, the status
\* is 400 or more, a later statement raises, or the page is fetched.
AttemptOutcomes ==
  {"new_page_raises", "dns", "goto_raises", "no_response", "http_error",
   "content_raises", "fetched"}

\* The exception an attempt ends with.
ErrorOf(outcome, attempt) ==
  [attempt |-> attempt,
   type |-> IF outcome = "new_page_raises" THEN "RuntimeError"
            ELSE IF outcome = "content_raises" THEN "OSError"
            ELSE "PlaywrightError",
   message |-> IF outcome = "dns" THEN "net::ERR_NAME_NOT_RESOLVED" ELSE outcome]

\* No error ends the retries.
NotRetriedNever(e) == FALSE

\* The errors that are not retried.
NotRetried(e) ==
  e.type = "PlaywrightError" /\ e.message = "net::ERR_NAME_NOT_RESOLVED"

\* The values of max_retries: None stands for settings.retry_attempts.
RetryArgs == {Null} \cup {Some(k) : k \in -1 .. MaxRetries}

\* get_page_with_retry(url, max_retries) up to its loop: without an attempt
\* to make it raises at once.
StartFetch(max_retries) ==
  LET retries == IF max_retries = Null THEN RetryAttempts ELSE Val(max_retries)
  IN  [op |-> "get_page_with_retry", max_retries |-> retries,
       attempts |-> <<>>, pages |-> <<>>,
       status |-> IF retries + 1 > 0 THEN "running" ELSE "raised",
       returned |-> Null,
       raised |-> IF retries + 1 > 0 THEN Null
                  ELSE Some([attempt |-> 0, type |-> "PlaywrightError",
                             message |-> "Failed to fetch"])]

\* One pass of the loop of get_page_with_retry, and what follows it when it
\* was the last: a page is opened unless new_page raises; a fetched page is
\* returned; after a failure the page is closed, and the error is raised when
\* it is not retried or no attempt is left.
AfterAttempt(fetch, outcome) ==
  LET attempt == Len(fetch.attempts) + 1
      e == ErrorOf(outcome, attempt)
      opened == IF outcome = "new_page_raises" THEN fetch.pages
                ELSE Append(fetch.pages,
                            [attempt |-> attempt, closed |-> outcome # "fetched"])
      last == NotRetried(e) \/ attempt = fetch.max_retries + 1
  IN  [fetch EXCEPT
         !.attempts = Append(@, outcome),
         !.pages = opened,
         !.status = IF outcome = "fetched" THEN "returned"
                    ELSE IF last THEN "raised" ELSE "running",
         !.returned = IF outcome = "fetched" THEN Some(Len(opened)) ELSE Null,
         !.raised = IF outcome # "fetched" /\ last THEN Some(e) ELSE Null]

\* A call of get_page_with_retry.
GetPageWithRetry(max_retries) ==
  /\ IF scraping.op = "none" THEN TRUE
     ELSE scraping.op = "get_page_with_retry" /\ scraping.status # "running"
  /\ scraping' = StartFetch(max_retries)
  /\ UNCHANGED <<settings, scorer, df, call, listings>>

\* One attempt of the call under way.
FetchAttempt(outcome) ==
  /\ scraping.op = "get_page_with_retry"
  /\ scraping.status = "running"
  /\ scraping' = AfterAttempt(scraping, outcome)
  /\ UNCHANGED <<settings, scorer, df, call, listings>>

FetchNext ==
  \/ \E max_retries \in RetryArgs : GetPageWithRetry(max_retries)
  \/ \E outcome \in AttemptOutcomes : FetchAttempt(outcome)

SpecFetch == CrudInit /\ [][FetchNext]_vars

\* ------------------------------------------- the result pages, scraped
\* Largest max_pages handed to scrape_search_results_json.
MaxPages == 2

\* What a fetched result page holds: content without readable JSON data, or
\* JSON data with no, one or two listings.
PageContents ==
  {[wellformed |-> FALSE, listings |-> 0], [wellformed |-> TRUE, listings |-> 0],
   [wellformed |-> TRUE, listings |-> 1], [wellformed |-> TRUE, listings |-> 2]}

\* What page.query_selector gives for the next-page link.
NextPageLinks == {"next", "none", "raises"}

\* The values of max_pages.
MaxPagesArgs == {Null} \cup {Some(k) : k \in 0 .. MaxPages}

\* extract_listings_from_html followed by create_listing_models: every
\* failure of the extraction is caught and gives the empty list.
extract_listings_from_html(page_num, content) ==
  IF content.wellformed
  THEN [i \in 1 .. content.listings |-> [page |-> page_num, item |-> i]]
  ELSE <<>>

\* The loop is left after any page with listings.
EndOfResultsAfterAnyPage(normalized_listings, link) == TRUE

\* The two break statements of the loop: no listings, or no next-page link.
EndOfResults(normalized_listings, link) ==
  normalized_listings = <<>> \/ link = "none"

\* scrape_search_results_json(max_pages) up to its loop: the loop header
\* raises for None, and so does a client that does not start.
ScrapeSearchResultsJson(max_pages, client_starts) ==
  /\ IF scraping.op = "none" THEN TRUE
     ELSE scraping.op = "scrape_search_results_json" /\ scraping.status # "running"
  /\ LET raised == IF ~client_starts THEN "PlaywrightError"
                   ELSE PageNumbers(max_pages).raised
     IN  scraping' = [op |-> "scrape_search_results_json", max_pages |-> max_pages,
                      page_num |-> 0, requested |-> <<>>, fetch |-> Idle,
                      outcomes |-> <<>>, pages |-> <<>>, all_listings |-> <<>>,
                      status |-> IF raised = "none" THEN "running" ELSE "raised",
                      returned |-> Null, raised |-> raised]
  /\ UNCHANGED <<settings, scorer, df, call, listings>>

\* The loop header: the next page number is taken and its fetch begins, or
\* the pages are used up and all_listings is returned.
NextPage ==
  /\ scraping.op = "scrape_search_results_json"
  /\ scraping.status = "running"
  /\ scraping.fetch = Idle
  /\ IF scraping.page_num < Val(scraping.max_pages)
     THEN scraping' = [scraping EXCEPT !.page_num = @ + 1,
                                       !.requested = Append(@, scraping.page_num + 1),
                                       !.fetch = StartFetch(Null)]
     ELSE scraping' = [scraping EXCEPT !.status = "returned",
                                       !.returned = Some(scraping.all_listings)]
  /\ UNCHANGED <<settings, scorer, df, call, listings>>

\* One attempt of the fetch of the current page.
PageFetchAttempt(outcome) ==
  /\ scraping.op = "scrape_search_results_json"
  /\ scraping.status = "running"
  /\ scraping.fetch # Idle
  /\ scraping.fetch.status = "running"
  /\ scraping' = [scraping EXCEPT !.fetch = AfterAttempt(@, outcome)]
  /\ UNCHANGED <<settings, scorer, df, call, listings>>

\* get_page_with_retry raised: the error is logged and the loop continues.
PageFetchRaised ==
  /\ scraping.op = "scrape_search_results_json"
  /\ scraping.status = "running"
  /\ scraping.fetch # Idle
  /\ scraping.fetch.status = "raised"
  /\ scraping' = [scraping EXCEPT
                    !.fetch = Idle,
                    !.outcomes = Append(@, [page_num |-> scraping.page_num,
                                            fetched |-> FALSE,
                                            content |-> [wellformed |-> FALSE, listings |-> 0],
                                            link |-> "none"])]
  /\ UNCHANGED <<settings, scorer, df, call, listings>>

\* The body of the loop after the page came back: the listings are
\* extracted; without listings the loop is left; else they are added to
\* all_listings and the next-page link is looked up; the page is closed in
\* every case; an exception of the lookup is logged and the loop continues.
PageFetched(content, link) ==
  /\ scraping.op = "scrape_search_results_json"
  /\ scraping.status = "running"
  /\ scraping.fetch # Idle
  /\ scraping.fetch.status = "returned"
  /\ LET normalized_listings == extract_listings_from_html(scraping.page_num, content)
         all_listings == scraping.all_listings \o normalized_listings
         break == EndOfResults(normalized_listings, link)
     IN  scraping' = [scraping EXCEPT
                        !.fetch = Idle,
                        !.outcomes = Append(@, [page_num |-> scraping.page_num,
                                                fetched |-> TRUE,
                                                content |-> content, link |-> link]),
                        !.pages = Append(@, [page_num |-> scraping.page_num,
                                             closed |-> TRUE]),
                        !.all_listings = all_listings,
                        !.status = IF break THEN "returned" ELSE "running",
                        !.returned = IF break THEN Some(all_listings) ELSE Null]
  /\ UNCHANGED <<settings, scorer, df, call, listings>>

ScrapeNext ==
  \/ \E max_pages \in MaxPagesArgs, client_starts \in BOOLEAN :
       ScrapeSearchResultsJson(max_pages, client_starts)
  \/ NextPage
  \/ \E outcome \in AttemptOutcomes : PageFetchAttempt(outcome)
  \/ PageFetchRaised
  \/ \E content \in PageContents, link \in NextPageLinks : PageFetched(content, link)

SpecScrape == CrudInit /\ [][ScrapeNext]_vars

\* The event loop runs a coroutine that can take a step: every await of the
\* loop comes back, with a result or with an exception.
SpecScrapeFair ==
  /\ SpecScrape
  /\ WF_vars(NextPage)
  /\ WF_vars(\E outcome \in AttemptOutcomes : PageFetchAttempt(outcome))
  /\ WF_vars(PageFetchRaised)
  /\ WF_vars(\E content \in PageContents, link \in NextPageLinks : PageFetched(content, link))

\* ------------------------------------------------------------ properties

\* score_listings has just returned a scored, non-empty collection.
Scored == call.op = "score_listings" /\ call.raised = "none" /\ df # <<>>

\* The collection it returned.
Result == Val(call.returned)

InUnitInterval(q) == FracLeq(Zero, q) /\ FracLeq(q, One)

\* C1: after score_listings on a non-empty collection every listing's
\* price_score, year_score, kilometers_score and condition_score lies in
\* [0, 1], whatever mix of null, negative or out-of-range inputs it holds;
\* and the score parse_condition returns lies in [0, 1].
C1_ComponentScoresInUnitInterval ==
  /\ Scored =>
       \A i \in DOMAIN Result :
         \A k \in DOMAIN ComponentColumns :
           InUnitInterval(Val(Result[i][ComponentColumns[k]]))
  /\ call.op = "parse_condition" => InUnitInterval(Val(call.returned).score)

\* A collection with a null price, a negative price, a null condition score
\* and a condition score above 1 has been scored.
C1_Witness ==
  /\ Scored
  /\ \E i \in DOMAIN df : df[i].price_dkk = Null
  /\ \E i \in DOMAIN df : notna(df[i].price_dkk) /\ Val(df[i].price_dkk) < 0
  /\ \E i \in DOMAIN df : df[i].condition_score = Null
  /\ \E i \in DOMAIN df :
       notna(df[i].condition_score) /\ FracLt(One, Val(df[i].condition_score))

\* C2: under every weight vector the constructor accepts, the composite
\* score of every scored listing is an integer in [0, 100].
C2_CompositeInRange ==
  Scored => \A i \in DOMAIN Result : Val(Result[i].score) \in 0..100

\* A listing whose weighted sum is above 1 (a negative weight is in force)
\* has been scored.
C2_Witness ==
  /\ Scored
  /\ \E k \in DOMAIN scorer.weights : scorer.weights[k] < 0
  /\ \E i \in DOMAIN Result : FracLt(One, Val(Result[i].score_raw))

\* The weighted sum of the four component scores of a scored row, the terms
\* added in the order condition, kilometers, year, price.
ClaimedRaw(row, w) ==
  FracAdd(Frac(Num(Val(row.condition_score)) * w["condition"],
               Den(Val(row.condition_score)) * 1000),
    FracAdd(Frac(Num(Val(row.kilometers_score)) * w["kilometers"],
                 Den(Val(row.kilometers_score)) * 1000),
      FracAdd(Frac(Num(Val(row.year_score)) * w["year"],
                   Den(Val(row.year_score)) * 1000),
              Frac(Num(Val(row.price_score)) * w["price"],
                   Den(Val(row.price_score)) * 1000))))

\* s is x rounded to the nearest integer and then clamped to [0, 100].
IsRoundedAndClamped(s, x) ==
  /\ s \in 0..100
  /\ s > 0 => FracLeq(FracSub(FracOfInt(s), x), Half)
  /\ s < 100 => FracLeq(FracSub(x, FracOfInt(s)), Half)

\* C3: score_raw is the weighted sum of the listing's four component scores
\* under the scorer's weights, and score is round(score_raw * 100) clamped
\* to [0, 100].
C3_WeightedSumRoundedClamped ==
  Scored =>
    \A i \in DOMAIN Result :
      /\ Val(Result[i].score_raw) = ClaimedRaw(Result[i], scorer.weights)
      /\ IsRoundedAndClamped(Val(Result[i].score),
                             FracMul(Val(Result[i].score_raw), FracOfInt(100)))

\* A scored listing whose weighted sum times 100 is not an integer, and one
\* whose composite had to be clamped.
C3_Witness ==
  /\ Scored
  /\ \E i \in DOMAIN Result :
       Den(FracMul(Val(Result[i].score_raw), FracOfInt(100))) # 1
  /\ \E i \in DOMAIN Result : FracLt(One, Val(Result[i].score_raw))

\* The three winsorized attributes and the component score of each.
Attributes ==
  { [col |-> "price_dkk", score_col |-> "price_score"],
    [col |-> "year", score_col |-> "year_score"],
    [col |-> "kilometers", score_col |-> "kilometers_score"] }

\* C4: a listing whose price, year or kilometers is null gets exactly 0.5
\* for that component, whatever the other listings hold; a null
\* condition_score becomes exactly 0.5.
C4_NullGetsHalf ==
  Scored =>
    \A i \in DOMAIN df :
      /\ \A a \in Attributes :
           df[i][a.col] = Null => Result[i][a.score_col] = Some(Half)
      /\ df[i].condition_score = Null => Result[i].condition_score = Some(Half)

\* A scored collection where one listing has no price and two others have
\* prices that score differently, and one listing has no condition score.
C4_Witness ==
  /\ Scored
  /\ \E i \in DOMAIN df : df[i].price_dkk = Null
  /\ \E i, j \in DOMAIN df :
       /\ notna(df[i].price_dkk) /\ notna(df[j].price_dkk)
       /\ Result[i].price_score # Result[j].price_score
  /\ \E i \in DOMAIN df : df[i].year = Null
  /\ \E i \in DOMAIN df : df[i].condition_score = Null

\* All present values of column col are the same.
AllIdentical(frame, col) ==
  \A i, j \in DOMAIN frame :
    notna(frame[i][col]) /\ notna(frame[j][col]) => frame[i][col] = frame[j][col]

\* C5: if all present values of price, year or kilometers are identical
\* (a single listing included), every listing that has a value gets exactly
\* 0.5 for that component.
C5_IdenticalValuesGetHalf ==
  Scored =>
    \A a \in Attributes :
      AllIdentical(df, a.col) =>
        \A i \in DOMAIN df :
          notna(df[i][a.col]) => Result[i][a.score_col] = Some(Half)

\* A collection has been scored in which two listings have the same price,
\* a third has none, and the years differ (so the year scores are not all 0.5).
C5_Witness ==
  /\ Scored
  /\ \E i, j \in DOMAIN df : i # j /\ notna(df[i].price_dkk) /\ notna(df[j].price_dkk)
  /\ \E i \in DOMAIN df : df[i].price_dkk = Null
  /\ AllIdentical(df, "price_dkk")
  /\ ~AllIdentical(df, "year")
  /\ \E i \in DOMAIN df : notna(df[i].year) /\ Result[i].year_score # Some(Half)

\* C6: of two listings of one scored collection that both have the
\* attribute, the cheaper one has a price_score at least as high, the one
\* with fewer kilometers a kilometers_score at least as high, and the newer
\* one a year_score at least as high.
C6_Directionality ==
  Scored =>
    \A i, j \in DOMAIN df :
      /\ (notna(df[i].price_dkk) /\ notna(df[j].price_dkk)
          /\ Val(df[i].price_dkk) < Val(df[j].price_dkk))
           => FracLeq(Val(Result[j].price_score), Val(Result[i].price_score))
      /\ (notna(df[i].kilometers) /\ notna(df[j].kilometers)
          /\ Val(df[i].kilometers) < Val(df[j].kilometers))
           => FracLeq(Val(Result[j].kilometers_score), Val(Result[i].kilometers_score))
      /\ (notna(df[i].year) /\ notna(df[j].year)
          /\ Val(df[i].year) > Val(df[j].year))
           => FracLeq(Val(Result[j].year_score), Val(Result[i].year_score))

\* Four listings with four different prices have been scored with quartile
\* winsorization: the cheapest has price_score 1, the dearest 0, and the
\* clipped second-cheapest shares the cheapest's score.
C6_Witness ==
  /\ Scored
  /\ scorer.lower_percentile = 25
  /\ \E i, j, k \in DOMAIN df :
       /\ notna(df[i].price_dkk) /\ notna(df[j].price_dkk) /\ notna(df[k].price_dkk)
       /\ Val(df[i].price_dkk) < Val(df[j].price_dkk)
       /\ Val(df[j].price_dkk) < Val(df[k].price_dkk)
       /\ Result[i].price_score = Some(One)
       /\ Result[j].price_score = Some(One)
       /\ Result[k].price_score = Some(Zero)

ScoreColumns == {"price_score", "year_score", "kilometers_score", "score_raw", "score"}

SuppliedWeights ==
  IF call.arg = Null \/ DOMAIN Val(call.arg) = {}
  THEN get_scoring_weights(settings) ELSE Val(call.arg)

\* C9: constructing a ListingScorer with weights whose sum is outside
\* [0.99, 1.01] raises ValueError and yields no scorer; with a sum inside,
\* construction succeeds and the scorer holds exactly the supplied weights.
C9_WeightSumValidated ==
  call.op = "ListingScorer" =>
    IF TotalWeight(SuppliedWeights) < 990 \/ TotalWeight(SuppliedWeights) > 1010
    THEN call.raised = "ValueError" /\ call.returned = Null
    ELSE /\ call.raised = "none"
         /\ Val(call.returned).weights = SuppliedWeights
         /\ scorer = Val(call.returned)

\* A construction with weights summing to 1.1 has failed while the caller
\* still holds the scorer constructed before with weights summing to 1.004.
C9_Witness ==
  /\ call.op = "ListingScorer"
  /\ call.raised = "ValueError"
  /\ TotalWeight(SuppliedWeights) = 1100
  /\ scorer.constructed
  /\ TotalWeight(scorer.weights) = 1004

\* C10 (as claimed): every weight vector the constructor accepts consists of
\* four non-negative weights named price, year, kilometers and condition,
\* so no other vector reaches the aggregation.
C10_AcceptedWeightsWellFormed ==
  scorer.constructed =>
    /\ DOMAIN scorer.weights = WeightKeys
    /\ \A k \in DOMAIN scorer.weights : scorer.weights[k] >= 0

\* The present values of column col, by row position.
Present(frame, col) == {i \in DOMAIN frame : notna(frame[i][col])}

\* How many present values the lower and the upper percentile cut:
\* floor(lower * n) and floor((1 - upper) * n).
CutLow(frame, col) ==
  (scorer.lower_percentile * Cardinality(Present(frame, col))) \div 100

CutHigh(frame, col) ==
  ((100 - scorer.upper_percentile) * Cardinality(Present(frame, col))) \div 100

\* The smallest retained value: the present value with at most CutLow values
\* below it and more than CutLow values not above it.
LowBoundary(frame, col) ==
  LET P == Present(frame, col)
      v(i) == Val(frame[i][col])
      b == CHOOSE i \in P :
             /\ Cardinality({j \in P : v(j) < v(i)}) <= CutLow(frame, col)
             /\ Cardinality({j \in P : v(j) <= v(i)}) > CutLow(frame, col)
  IN  v(b)

\* The largest retained value, symmetrically.
HighBoundary(frame, col) ==
  LET P == Present(frame, col)
      v(i) == Val(frame[i][col])
      b == CHOOSE i \in P :
             /\ Cardinality({j \in P : v(j) > v(i)}) <= CutHigh(frame, col)
             /\ Cardinality({j \in P : v(j) >= v(i)}) > CutHigh(frame, col)
  IN  v(b)

\* A value clipped to the retained range.
Clipped(frame, col, x) ==
  IF x < LowBoundary(frame, col) THEN LowBoundary(frame, col)
  ELSE IF x > HighBoundary(frame, col) THEN HighBoundary(frame, col)
  ELSE x

\* The attributes where a smaller value is better.
Inverted == {"price_dkk", "kilometers"}

\* The min-max score of the clipped value x of column col.
ClippedScore(frame, col, x) ==
  LET lo == LowBoundary(frame, col)
      hi == HighBoundary(frame, col)
      r == Frac(Clipped(frame, col, x) - lo, IF hi = lo THEN 1 ELSE hi - lo)
  IN  IF hi = lo THEN Half
      ELSE IF col \in Inverted THEN FracSub(One, r) ELSE r

\* C11: winsorization clips and never removes.  Of the n present values of
\* an attribute the floor(lower*n) smallest and the floor((1-upper)*n)
\* largest are replaced by the nearest retained value before min-max
\* scaling and every other value is scaled as it is; the result has one
\* row per input listing, in input order, with the input's attributes.
C11_WinsorizeClipsNeverRemoves ==
  Scored =>
    /\ Len(Result) = Len(df)
    /\ \A i \in DOMAIN df :
         \A a \in Attributes :
           /\ Result[i][a.col] = df[i][a.col]
           /\ notna(df[i][a.col]) =>
                Result[i][a.score_col] =
                  Some(ClippedScore(df, a.col, Val(df[i][a.col])))

\* A scored collection of four distinct prices under quartile winsorization:
\* the cheapest was raised and the dearest lowered to a retained value, so
\* each shares its score with another listing.
C11_Witness ==
  /\ Scored
  /\ CutLow(df, "price_dkk") = 1
  /\ CutHigh(df, "price_dkk") = 1
  /\ \A i, j \in DOMAIN df : i # j => df[i].price_dkk # df[j].price_dkk
  /\ \E i \in DOMAIN df :
       notna(df[i].price_dkk) /\ Val(df[i].price_dkk) < LowBoundary(df, "price_dkk")
  /\ \E i \in DOMAIN df :
       notna(df[i].price_dkk) /\ Val(df[i].price_dkk) > HighBoundary(df, "price_dkk")
  /\ LowBoundary(df, "price_dkk") < HighBoundary(df, "price_dkk")

\* parse_condition has just returned normally for the text call.arg.
Classified ==
  call.op = "parse_condition" /\ call.raised = "none" /\ call.previous = Null

\* What it returned: the score and the trace.
Score_ == Val(call.returned).score

Trace == Val(call.returned).debug_info

\* None, the empty string or a string of whitespace only.
IsBlank(t) ==
  t = Null \/ \A i \in DOMAIN Val(t) : Val(t)[i] \in {" ", "\t", "\n"}

\* C12: for None, the empty string and every whitespace-only string
\* parse_condition returns score 0.5, with final_score 0.5 in the trace, so
\* all these inputs get the same score.
C12_BlankTextIsNeutral ==
  Classified /\ IsBlank(call.arg) => Score_ = Half /\ Trace.final_score = Half

\* A whitespace-only string of several characters, tabs or newlines among
\* them, has been classified.
C12_Witness ==
  /\ Classified
  /\ call.arg # Null
  /\ Len(Val(call.arg)) >= 2
  /\ IsBlank(call.arg)
  /\ \E i \in DOMAIN Val(call.arg) : Val(call.arg)[i] # " "

\* str.upper() and str.lower() on the characters of the texts: the letters
\* a-z, æ, ø, å pair with their capitals, the sharp s has the upper case "SS"
\* and no other lower case than itself.
UpperOf(c) ==
  IF c = "ß" THEN <<"S", "S">>
  ELSE IF \E i \in DOMAIN LowerCase : LowerCase[i] = c
  THEN <<UpperCase[CHOOSE i \in DOMAIN LowerCase : LowerCase[i] = c]>>
  ELSE <<c>>

LowerOf(c) ==
  IF \E i \in DOMAIN UpperCase : UpperCase[i] = c
  THEN <<LowerCase[CHOOSE i \in DOMAIN UpperCase : UpperCase[i] = c]>>
  ELSE <<c>>

RECURSIVE InUpperCase(_)
InUpperCase(t) ==
  IF t = <<>> THEN <<>> ELSE UpperOf(Head(t)) \o InUpperCase(Tail(t))

RECURSIVE InLowerCase(_)
InLowerCase(t) ==
  IF t = <<>> THEN <<>> ELSE LowerOf(Head(t)) \o InLowerCase(Tail(t))

\* The text in upper case and the text in lower case get the score the text
\* itself got.
SameScoreInBothCases ==
  LET t == Val(call.arg)
  IN  /\ parse_condition(Some(InUpperCase(t))).score = Score_
      /\ parse_condition(Some(InLowerCase(t))).score = Score_

\* C13 (as claimed): for every text, the score of the text in upper case
\* equals the score of the text in lower case.
C13_CaseInsensitive ==
  Classified /\ call.arg # Null =>
    parse_condition(Some(InUpperCase(Val(call.arg)))).score
      = parse_condition(Some(InLowerCase(Val(call.arg)))).score

\* C13 (amended): for every text whose upper-case form lower-cases to the
\* text's own lower-case form (every text of ASCII and Danish letters), the
\* text, its upper-case form and its lower-case form get the same score.
C13_CaseInsensitiveWhereCaseRoundTrips ==
  Classified /\ call.arg # Null
    /\ InLowerCase(InUpperCase(Val(call.arg))) = InLowerCase(Val(call.arg))
  => SameScoreInBothCases

\* A text in mixed case that matches the lexicon has been classified.
C13_Witness ==
  /\ Classified
  /\ call.arg # Null
  /\ InUpperCase(Val(call.arg)) # Val(call.arg)
  /\ InLowerCase(Val(call.arg)) # Val(call.arg)
  /\ InLowerCase(InUpperCase(Val(call.arg))) = InLowerCase(Val(call.arg))
  /\ Trace.base_matches # NoMatch
  /\ Score_ # Half

\* The candidate phrases of the classified text: its words and its two- and
\* three-word windows.
Candidates == extract_condition_phrases(normalize_text(Val(call.arg)))

\* The positions of the candidates c found in a table.
Hits(c, table) == {i \in DOMAIN c : \E e \in table : e.phrase = c[i]}

\* The sum over a table's entries of the entry's delta (hundredths) times the
\* number of candidates equal to its phrase.
RECURSIVE DeltaTimesOccurrences(_, _)
DeltaTimesOccurrences(c, table) ==
  IF table = {} THEN 0
  ELSE LET e == CHOOSE x \in table : TRUE
       IN  e.delta * Cardinality({i \in DOMAIN c : c[i] = e.phrase})
           + DeltaTimesOccurrences(c, table \ {e})

\* clamp(base + sum of deltas, 0.0, 1.0)
ClaimedFinal(c) ==
  LET x == FracAdd(Trace.base_score,
                   Frac(DeltaTimesOccurrences(c, POSITIVE_MODIFIERS)
                        + DeltaTimesOccurrences(c, NEGATIVE_MODIFIERS)
                        + DeltaTimesOccurrences(c, ISSUE_PHRASES), 100))
  IN  IF FracLt(x, Zero) THEN Zero ELSE IF FracLt(One, x) THEN One ELSE x

\* C14: the final score is clamp(base + sum of deltas, 0, 1), where every
\* occurrence of a candidate phrase in the positive-modifier, the
\* negative-modifier or the issue-phrase table adds that table's delta (each
\* occurrence and each table counted, no deduplication, no cap), and the
\* clamp is applied once to the accumulated sum.
C14_DeltasAccumulateClampedOnce ==
  Classified /\ ~IsBlank(call.arg) =>
    LET c == Candidates
        final == ClaimedFinal(c)
    IN  /\ Score_ = final
        /\ Trace.final_score = final
        /\ Len(Trace.modifier_effects)
             = Cardinality(Hits(c, POSITIVE_MODIFIERS))
               + Cardinality(Hits(c, NEGATIVE_MODIFIERS))
               + Cardinality(Hits(c, ISSUE_PHRASES))

\* A text with base 1.0, a repeated modifier and deltas of both signs has
\* been classified: clamping before the end would give another score.
C14_Witness ==
  /\ Classified
  /\ ~IsBlank(call.arg)
  /\ Trace.base_score = One
  /\ Len(Trace.modifier_effects) >= 3
  /\ \E k \in DOMAIN Trace.modifier_effects : Trace.modifier_effects[k].delta > 0
  /\ \E k \in DOMAIN Trace.modifier_effects : Trace.modifier_effects[k].delta < 0
  /\ FracLt(Score_, One)

\* C15: the base score is the maximum mapped score among the candidate
\* phrases found in the base lexicon (not the first, not the average), with
\* one trace entry per match; when none is found it is 0.5 with the single
\* trace entry 'no_match', which no lexicon hit produces.  'Bilen er i
\* topstand og nysynet' has base 1.0 and final score 1.0.
C15_BaseIsMaximumMatch ==
  Classified /\ ~IsBlank(call.arg) =>
    LET c == Candidates
        hits == Hits(c, CONDITION_MAPPINGS)
        mapped(i) == (CHOOSE e \in CONDITION_MAPPINGS : e.phrase = c[i]).score
    IN  /\ hits = {} =>
             /\ Trace.base_score = Half
             /\ Trace.base_matches = <<[phrase |-> <<"n","o","_","m","a","t","c","h">>,
                                       score |-> 50]>>
        /\ hits # {} =>
             /\ \E i \in hits : Trace.base_score = Frac(mapped(i), 100)
             /\ \A i \in hits : FracLeq(Frac(mapped(i), 100), Trace.base_score)
             /\ Len(Trace.base_matches) = Cardinality(hits)
             /\ \A k \in DOMAIN Trace.base_matches :
                  Trace.base_matches[k].phrase # <<"n","o","_","m","a","t","c","h">>
        /\ call.arg = Some(<<"B","i","l","e","n"," ","e","r"," ","i"," ",
                             "t","o","p","s","t","a","n","d"," ","o","g"," ",
                             "n","y","s","y","n","e","t">>)
             => Trace.base_score = One /\ Score_ = One

\* A text whose first lexicon match is not its best one has been classified.
C15_Witness ==
  /\ Classified
  /\ ~IsBlank(call.arg)
  /\ Len(Trace.base_matches) >= 2
  /\ Frac(Trace.base_matches[1].score, 100) # Trace.base_score
  /\ Trace.base_score = One

\* C16 (as claimed): a base-lexicon phrase spelled with æ, ø or å is
\* recognised: 'Pæn bil men med rust' has base 0.8 and final score 0.7, and
\* every key of CONDITION_MAPPINGS given alone (in any letter case) has its
\* mapped score as base score.
C16_DanishLettersRecognised ==
  Classified /\ call.arg # Null =>
    /\ call.arg = Some(<<"P","æ","n"," ","b","i","l"," ","m","e","n"," ",
                         "m","e","d"," ","r","u","s","t">>)
         => Trace.base_score = Frac(80, 100) /\ Score_ = Frac(70, 100)
    /\ \A e \in CONDITION_MAPPINGS :
         InLowerCase(Val(call.arg)) = e.phrase
           => Trace.base_score = Frac(e.score, 100)

\* C17 (as claimed): putting a word of POSITIVE_MODIFIERS in front of a text
\* never lowers its score.
C17_PositiveModifierNeverLowers ==
  Classified /\ call.arg # Null =>
    \A m \in POSITIVE_MODIFIERS :
      FracLeq(Score_,
              parse_condition(Some(m.phrase \o <<" ">> \o Val(call.arg))).score)

\* C18: parse_condition never raises for a string or None; an exception
\* raised inside the try block (while normalising, extracting phrases,
\* matching the lexicon, applying modifiers or logging) is caught and turned
\* into score 0.5 with an 'error' entry in the trace.
C18_NeverRaises ==
  call.op = "parse_condition" =>
    /\ call.raised = "none"
    /\ call.previous # Null =>
         /\ Score_ = Half
         /\ "error" \in DOMAIN Trace
         /\ Trace.original_text = call.arg

\* An exception was raised in apply_modifiers for a text that scores 0.3
\* or less when nothing raises.
C18_Witness ==
  /\ call.op = "parse_condition"
  /\ call.previous # Null
  /\ "error" \in DOMAIN Trace
  /\ Trace.error = "apply_modifiers"
  /\ Trace.base_score # Half
  /\ FracLeq(Val(Val(call.previous).returned).score, Frac(30, 100))

\* C19: score_listings on an empty collection returns an empty collection
\* without raising; no listing and no score is added, to the result or to
\* the input.
C19_EmptyInEmptyOut ==
  call.op = "score_listings" /\ call.arg = Some(<<>>) =>
    /\ call.raised = "none"
    /\ call.returned = Some(<<>>)
    /\ df = <<>>

\* An empty collection has been scored by a scorer whose weights lack three
\* of the keys the aggregation reads (it raises on a non-empty collection).
C19_Witness ==
  /\ call.op = "score_listings"
  /\ call.arg = Some(<<>>)
  /\ call.raised = "none"
  /\ ~(WeightKeys \subseteq DOMAIN scorer.weights)

\* rescore_all_listings has just completed without raising, called by
\* POST /rescore, by a scrape that stored a listing, at start-up or by the
\* launcher.
Rescored ==
  /\ call.raised = "none"
  /\ \/ call.op = "rescore_listings"
     \/ call.op = "scrape_sync" /\ Val(call.returned).stored_count > 0
     \/ call.op = "startup_event" /\ Val(call.returned).rescored_count # Null
     \/ call.op = "main" /\ call.returned # Null

\* What score_listings computes for the entire stored collection, taken in
\* id order, under the configured weights.
FreshScores ==
  Val(score_listings_dataframe(ListingsFrame(listings), settings).returned)

UniqueUrls ==
  \A i, j \in DOMAIN listings :
    (listings[i].url = listings[j].url \/ listings[i].id = listings[j].id) => i = j

StoredIds(table) == {table[i].id : i \in DOMAIN table}

\* What a step of upsert_listing or create_listing does to the table.
UpsertOrCreateStep ==
  /\ call'.op = "upsert_listing" =>
       LET listing == Val(call'.arg)
           existing == get_listing_by_url(listings, listing.url)
           stored == get_listing_by_url(listings', listing.url)
       IN  /\ stored # Null
           /\ Val(call'.returned) = listings'[Val(stored)]
           /\ IF existing = Null
              THEN /\ Len(listings') = Len(listings) + 1
                   /\ listings'[Val(stored)].id \notin StoredIds(listings)
              ELSE /\ Len(listings') = Len(listings)
                   /\ StoredIds(listings') = StoredIds(listings)
                   /\ listings'[Val(stored)].id = listings[Val(existing)].id
                   /\ listings'[Val(stored)].price_dkk = listing.price_dkk
                   /\ listings'[Val(stored)].kilometers = listing.kilometers
  /\ call'.op = "create_listing" =>
       IF get_listing_by_url(listings, Val(call'.arg).url) # Null
       THEN call'.raised # "none" /\ listings' = listings
       ELSE call'.raised = "none" /\ Len(listings') = Len(listings) + 1

\* C21: after any sequence of create_listing, upsert_listing, update_listing
\* and delete_listing calls no two stored listings share a url; upsert_listing
\* creates a listing when the url is not stored and otherwise updates the
\* stored listing in place, keeping its id and the number of listings; and
\* create_listing with a stored url fails without adding a listing.
C21_UrlsStayUnique == []UniqueUrls /\ [][UpsertOrCreateStep]_vars

\* upsert_listing has updated, in place, the first of two stored listings,
\* after an earlier listing had been deleted.
C21_Witness ==
  /\ call.op = "upsert_listing"
  /\ Len(listings) = 2
  /\ listings[1].id > 1
  /\ Val(call.returned).id = listings[1].id

\* What a step of update_listing or delete_listing does to the table.
UpdateOrDeleteStep ==
  /\ call'.op = "update_listing" =>
       LET listing_id == Val(call'.arg)[1]
           listing_update == Val(call'.arg)[2]
           found == get_listing(listings, listing_id)
       IN  IF found = Null
           THEN call'.returned = Null /\ listings' = listings
           ELSE /\ Len(listings') = Len(listings)
                /\ call'.returned = Some(listings'[Val(found)])
                /\ \A i \in DOMAIN listings :
                     /\ DOMAIN listings'[i] = DOMAIN listings[i]
                     /\ \A field \in DOMAIN listings[i] :
                          listings'[i][field] =
                            IF i = Val(found) /\ field \in DOMAIN listing_update
                            THEN listing_update[field]
                            ELSE listings[i][field]
  /\ call'.op = "delete_listing" =>
       IF get_listing(listings, Val(call'.arg)) = Null
       THEN call'.returned = Some(FALSE) /\ listings' = listings
       ELSE /\ call'.returned = Some(TRUE)
            /\ listings' = SelectSeq(listings, LAMBDA r : r.id # Val(call'.arg))

PlaceOf(row) == CHOOSE i \in DOMAIN listings : listings[i].id = row.id

InWindow(listing_id, q, skip, limit) ==
  \E k \in DOMAIN get_listings_where(listings, skip, limit, q.order_by,
                                     q.order_desc, q.min_price) :
    get_listings_where(listings, skip, limit, q.order_by, q.order_desc,
                       q.min_price)[k].id = listing_id

\* The stored listings that pass the filter of the query q.
Matching(q) ==
  {i \in DOMAIN listings :
     q.min_price # Null =>
       /\ listings[i].price_dkk # Null
       /\ Val(listings[i].price_dkk) >= Val(q.min_price)}

ClaimedRanges ==
  { [name |-> "0-19", low |-> 0, high |-> 20],
    [name |-> "20-39", low |-> 20, high |-> 40],
    [name |-> "40-59", low |-> 40, high |-> 60],
    [name |-> "60-79", low |-> 60, high |-> 80],
    [name |-> "80-100", low |-> 80, high |-> 101] }

\* The count a result gives for a range; a range without a key counts 0.
CountIn(stats, name) ==
  IF name \in DOMAIN stats.score_ranges THEN stats.score_ranges[name] ELSE 0

ScoredListings == {i \in DOMAIN listings : listings[i].score # Null}

\* C22: get_score_stats counts every listing with a score in exactly one of
\* the ranges 0-19, 20-39, 40-59, 60-79, 80-100, the one that holds its
\* score, so the counts sum to total_listings; listings without a score are
\* in no range and not in total_listings; and min_score <= mean_score <=
\* max_score.
C22_EveryScoreInOneRange ==
  call.op = "get_score_stats" =>
    LET stats == Val(call.returned)
    IN  /\ stats.total_listings = Cardinality(ScoredListings)
        /\ DOMAIN stats.score_ranges \subseteq {r.name : r \in ClaimedRanges}
        /\ \A r \in ClaimedRanges :
             CountIn(stats, r.name) =
               Cardinality({i \in ScoredListings :
                              /\ r.low <= Val(listings[i].score)
                              /\ Val(listings[i].score) < r.high})
        /\ CountIn(stats, "0-19") + CountIn(stats, "20-39") + CountIn(stats, "40-59")
             + CountIn(stats, "60-79") + CountIn(stats, "80-100")
             = stats.total_listings
        /\ FracLeq(FracOfInt(stats.min_score), stats.mean_score)
        /\ FracLeq(stats.mean_score, FracOfInt(stats.max_score))

\* The statistics were taken of a listing with score 100, one with score 19
\* or 79, and possibly more.
C22_Witness ==
  /\ call.op = "get_score_stats"
  /\ Val(call.returned).total_listings = 2
  /\ \E i \in DOMAIN listings : listings[i].score = Some(100)
  /\ \E i \in DOMAIN listings : listings[i].score \in {Some(19), Some(79)}

\* The result for a collection without a score.
NoData ==
  [min_score |-> 0, max_score |-> 0, mean_score |-> Zero, total_listings |-> 0,
   score_ranges |-> <<>>]

Ingested == call.op \in {"scrape_sync", "startup_event", "main"}

\* The table after each path has stored one incoming listing.
AfterUpsert(listing) == upsert_listing(listings, listing)
AfterStartup(listing) == StoreAtStartup(listings, <<listing>>, 1)
AfterLaunch(listing) == StoreAtLaunch(listings, <<listing>>, 1).listings

\* The scraped listings whose url is stored.
Restored == {a \in ListingCreates : get_listing_by_url(listings, a.url) # Null}

\* The fields that are null in an incoming record (the url never is).
NullFields(a) == {f \in DOMAIN a \ {"url"} : a[f] = Null}

C30_StartupEndsRescored ==
  call.op = "startup_event" =>
    /\ Val(call.returned).logged = "none"
    /\ Val(call.returned).rescored_count # Null
    /\ Val(call.returned).session_closed

Scraped == scraping.op = "scrape_search_results_json"

ScrapeRunning == Scraped /\ scraping.status = "running"

\* The pages the loop may request.
PageLimit == IF scraping.max_pages = Null THEN 0 ELSE Val(scraping.max_pages)

\* The listings of the first k pages, in page order.
RECURSIVE ListingsOfPages(_, _)
ListingsOfPages(outcomes, k) ==
  IF k = 0 THEN <<>>
  ELSE ListingsOfPages(outcomes, k - 1) \o
       (IF outcomes[k].fetched /\ outcomes[k].content.wellformed
        THEN [i \in 1 .. outcomes[k].content.listings |-> [page |-> k, item |-> i]]
        ELSE <<>>)

\* What every part of the claim but the skipping says: the pages are
\* requested in increasing order, at most max_pages of them, every obtained
\* page has been closed on return, and the returned list is the
\* concatenation of the pages' listings.
PagesInOrderClosedConcatenated ==
  LET n == Len(scraping.outcomes)
  IN  /\ scraping.requested = [k \in 1 .. Len(scraping.requested) |-> k]
      /\ Len(scraping.requested) <= PageLimit
      /\ \A k \in 1 .. n : scraping.outcomes[k].page_num = k
      /\ Len(scraping.requested) - n \in {0, 1}
      /\ \A p \in DOMAIN scraping.pages :
           /\ scraping.pages[p].closed
           /\ scraping.outcomes[scraping.pages[p].page_num].fetched
      /\ Len(scraping.pages) = Cardinality({k \in 1 .. n : scraping.outcomes[k].fetched})
      /\ scraping.status = "raised" => scraping.requested = <<>>
      /\ scraping.status = "returned" =>
           /\ scraping.fetch = Idle
           /\ Len(scraping.requested) = n
           /\ Val(scraping.returned) = ListingsOfPages(scraping.outcomes, n)

\* The loop stops at the pages that satisfy Ends, and only there or after
\* page max_pages.
StopsExactlyAt(Ends(_)) ==
  LET n == Len(scraping.outcomes)
  IN  /\ \A k \in 1 .. (n - 1) : ~Ends(scraping.outcomes[k])
      /\ n > 0 /\ Ends(scraping.outcomes[n]) => scraping.status = "returned"
      /\ n > 0 /\ ~Ends(scraping.outcomes[n]) /\ n < PageLimit =>
           scraping.status = "running"

\* As stated: a fetched page ends the loop when its data holds no listings or
\* it has no next-page link; a page whose extraction failed does not.
StatedEnd(o) ==
  /\ o.fetched
  /\ o.content.wellformed
  /\ o.content.listings = 0 \/ o.link = "none"

\* As the code has it: a page whose extraction failed ends the loop too.
ActualEnd(o) ==
  /\ o.fetched
  /\ ~o.content.wellformed \/ o.content.listings = 0 \/ o.link = "none"

====
